---- MODULE Spec2Model ----
(***************************************************************************)
(* Model of the data-availability verifier of nomos-node                   *)
(* (nomos-da/kzgrs-backend/src/verifier.rs) over a scaled-down pairing     *)
(* setting.                                                                *)
(*                                                                         *)
(* Scaling.  The scalar field of BLS12-381 is replaced by the prime field  *)
(* of order P.  A group element of G1 or G2 is represented by its discrete *)
(* logarithm with respect to the generator (an element of 0..P-1, the      *)
(* identity being 0), so that the group law is addition mod P, a scalar    *)
(* multiplication is a product mod P, and the pairing of two elements is   *)
(* the product of their logarithms mod P.  A byte is a digit in base       *)
(* ByteBase and a field element is serialised in BYTES_PER_FIELD_ELEMENT   *)
(* little-endian bytes; ByteBase^BYTES_PER_FIELD_ELEMENT > P, so, as in    *)
(* the program, some byte strings are not canonical encodings.             *)
(***************************************************************************)
EXTENDS Integers, Sequences, FiniteSets, TLC

\* ------------------------------------------------------------------------
\* Bounds of the exploration
\* ------------------------------------------------------------------------
\* data rows of a dispersed matrix (length of a column)
MaxRows == 2
\* signing keys are 1..NumKeys
NumKeys == 2
\* longest roster handed to DaVerifier::new
MaxRoster == 2
\* a tampered group element is the original one plus a delta in 1..MaxDelta
MaxDelta == 1

\* ------------------------------------------------------------------------
\* Field, groups, evaluation domain
\* ------------------------------------------------------------------------
P == 17
ByteBase == 5
BYTES_PER_FIELD_ELEMENT == 2
DomainSize == 4
DomainGen == 4
SrsLen == 4
TAU == 3
PkMul == 3
PkMod == 7
HashMul == 3

Field == 0..(P - 1)

FAdd(a, b) == (a + b) % P
FSub(a, b) == (a + P - (b % P)) % P
FMul(a, b) == (a * b) % P

RECURSIVE FPow(_, _)
FPow(a, n) == IF n = 0 THEN 1 ELSE FMul(a, FPow(a, n - 1))

FInv(a) == FPow(a, P - 2)

\* domain.element(i): the i-th power of the domain's generator
DomainElement(i) == FPow(DomainGen, i)

RECURSIVE SumTo(_, _)
\* sum over k in 1..n of f[k], in the field
SumTo(f, n) == IF n = 0 THEN 0 ELSE FAdd(f[n], SumTo(f, n - 1))

\* ------------------------------------------------------------------------
\* Bytes
\* ------------------------------------------------------------------------
RECURSIVE LEValue(_)
LEValue(bytes) ==
    IF bytes = <<>> THEN 0 ELSE Head(bytes) + ByteBase * LEValue(Tail(bytes))

\* from_le_bytes_mod_order
field_element_from_bytes_le(bytes) == LEValue(bytes) % P

\* canonical serialisation of a field element (into_bigint().to_bytes_le())
to_bytes_le(v) ==
    [k \in 1..BYTES_PER_FIELD_ELEMENT |-> (v \div (ByteBase ^ (k - 1))) % ByteBase]

RECURSIVE Concat(_)
Concat(seqs) == IF seqs = <<>> THEN <<>> ELSE Head(seqs) \o Concat(Tail(seqs))

\* Column::as_bytes: the chunks one after the other
as_bytes(column) == Concat(column)

\* ------------------------------------------------------------------------
\* Global parameters (SRS)
\* ------------------------------------------------------------------------
GLOBAL_PARAMETERS ==
    [powers_of_g |-> [k \in 1..SrsLen |-> FPow(TAU, k - 1)],
     h |-> 1,
     beta_h |-> TAU]

\* ------------------------------------------------------------------------
\* Polynomial commitment layer (kzgrs)
\* ------------------------------------------------------------------------
Ok(v) == [ok |-> TRUE, val |-> v]
Err == [ok |-> FALSE, val |-> 0]

\* Option<Fr>
None == <<>>
Some(v) == <<v>>

\* Evaluations::interpolate: inverse Fourier transform over the domain, the
\* evaluations padded with zeros to the size of the domain
interpolate(evals) ==
    LET e(i) == IF i + 1 <= Len(evals) THEN evals[i + 1] ELSE 0
        winv == FInv(DomainGen)
        coef(k) == FMul(FInv(DomainSize % P),
                        SumTo([i \in 1..DomainSize |->
                                  FMul(e(i - 1), FPow(winv, (i - 1) * k))],
                              DomainSize))
    IN [k \in 1..DomainSize |-> coef(k - 1)]

\* the field elements of a byte string, BYTES_PER_FIELD_ELEMENT bytes each
bytes_to_evaluations(bytes) ==
    [n \in 1..(Len(bytes) \div BYTES_PER_FIELD_ELEMENT) |->
        field_element_from_bytes_le(
            SubSeq(bytes, (n - 1) * BYTES_PER_FIELD_ELEMENT + 1,
                   n * BYTES_PER_FIELD_ELEMENT))]

\* bytes_to_polynomial: fails on a byte string that is not a whole number of
\* field elements or holds more elements than the domain has points
bytes_to_polynomial(bytes) ==
    IF \/ Len(bytes) % BYTES_PER_FIELD_ELEMENT # 0
       \/ Len(bytes) \div BYTES_PER_FIELD_ELEMENT > DomainSize
    THEN Err
    ELSE Ok(interpolate(bytes_to_evaluations(bytes)))

\* commit_polynomial: the multi-scalar product of the coefficients and the SRS
commit_polynomial(polynomial, gp) ==
    IF Len(polynomial) > Len(gp.powers_of_g)
    THEN Err
    ELSE Ok(SumTo([k \in 1..Len(polynomial) |->
                      FMul(polynomial[k], gp.powers_of_g[k])],
                  Len(polynomial)))

\* the pairing, on discrete logarithms
Pairing(a, b) == FMul(a, b)

\* verify_element_proof: e(C - v.G, H) = e(w, beta.H - u.H), u = domain[index];
\* the blinding term random_v of the proof takes no part in the check
verify_element_proof(index, element, commitment, proof, gp) ==
    LET u == DomainElement(index)
        commitment_check_g1 == FSub(commitment, FMul(gp.powers_of_g[1], element))
        proof_check_g2 == FSub(gp.beta_h, FMul(gp.h, u))
    IN Pairing(commitment_check_g1, gp.h) = Pairing(proof.w, proof_check_g2)

RECURSIVE QuotCoef(_, _, _)
\* coefficient k (from 0) of the quotient of polynomial - v by X - u
QuotCoef(polynomial, u, k) ==
    IF k + 1 >= Len(polynomial) THEN 0
    ELSE FAdd(polynomial[k + 2], FMul(u, QuotCoef(polynomial, u, k + 1)))

\* generate_element_proof: the commitment of the witness polynomial
\* (polynomial - v) / (X - u) for u = domain[index]
generate_element_proof(index, polynomial, gp) ==
    LET u == DomainElement(index)
        witness == [k \in 1..(Len(polynomial) - 1) |-> QuotCoef(polynomial, u, k - 1)]
    IN [w |-> commit_polynomial(witness, gp).val, random_v |-> None]

\* ------------------------------------------------------------------------
\* Hashes and signatures
\* ------------------------------------------------------------------------
RECURSIVE Digest(_, _)
\* a length-sensitive polynomial digest of a byte string, continued from h
Digest(h, bytes) ==
    IF bytes = <<>> THEN h
    ELSE Digest((h * HashMul + Head(bytes) + 1) % P, Tail(bytes))

\* commitment_to_bytes: the canonical serialisation of a group element
commitment_to_bytes(commitment) == to_bytes_le(commitment)

\* hash_column_and_commitment: digest of the column bytes followed by the
\* commitment bytes; the digest is short enough to be a canonical field element
hash_column_and_commitment(column, commitment) ==
    to_bytes_le(Digest(Digest(0, as_bytes(column)), commitment_to_bytes(commitment)))

\* build_attestation_message: digest input "aggregated commitment, then every
\* row commitment in order"; the hash is taken collision-free, the digest of
\* a serialisation being represented by the serialisation
build_attestation_message(aggregated_column_commitment, rows_commitments) ==
    commitment_to_bytes(aggregated_column_commitment)
        \o Concat([j \in 1..Len(rows_commitments) |->
                      commitment_to_bytes(rows_commitments[j])])

\* SecretKey::sk_to_pk
sk_to_pk(sk) == (sk * PkMul) % PkMod

\* SecretKey::sign(msg, dst, aug): a signature is determined by the key, the
\* message, the domain-separation tag and the augmentation
Sign(sk, msg, dst, aug) == [sk |-> sk, msg |-> msg, dst |-> dst, aug |-> aug]

\* Signature::verify against a public key
SigVerify(sig, msg, dst, aug, pk) ==
    sk_to_pk(sig.sk) = pk /\ sig.msg = msg /\ sig.dst = dst /\ sig.aug = aug


\* an id that also covers the column bytes
DaBlob_id_WithColumn(blob) ==
    build_attestation_message(blob.aggregated_column_commitment, blob.rows_commitments)
        \o as_bytes(blob.column)

\* ------------------------------------------------------------------------
\* DaBlob and DaVerifier (kzgrs-backend/src/verifier.rs)
\* ------------------------------------------------------------------------
\* DaBlob::id
DaBlob_id(blob) ==
    build_attestation_message(blob.aggregated_column_commitment, blob.rows_commitments)


\* the last position holding x instead of the first
find_position_Last(items, x) ==
    IF \E p \in 1..Len(items) : items[p] = x
    THEN Some((CHOOSE p \in 1..Len(items) :
                  /\ items[p] = x
                  /\ \A q \in (p + 1)..Len(items) : items[q] # x) - 1)
    ELSE None

\* Itertools::find_position: the first position (from 0) holding x
find_position(items, x) ==
    IF \E p \in 1..Len(items) : items[p] = x
    THEN Some((CHOOSE p \in 1..Len(items) :
                  /\ items[p] = x
                  /\ \A q \in 1..(p - 1) : items[q] # x) - 1)
    ELSE None


\* a constructor that falls back to position 0 for an unregistered key
DaVerifier_new_DefaultIndex(sk, nodes_public_keys) ==
    LET found == find_position(nodes_public_keys, sk_to_pk(sk))
    IN [state |-> "ok", sk |-> sk, index |-> IF found = None THEN 0 ELSE found[1]]

\* DaVerifier::new: expect() panics when the own public key is not registered
DaVerifier_new(sk, nodes_public_keys) ==
    LET self_pk == sk_to_pk(sk)
        found == find_position(nodes_public_keys, self_pk)
    IN IF found = None
       THEN [state |-> "panicked", sk |-> sk, index |-> 0]
       ELSE [state |-> "ok", sk |-> sk, index |-> found[1]]

\* DaVerifier::verify_column
verify_column(column, column_commitment, aggregated_column_commitment, aggregated_column_proof, index, gp) ==
    LET polynomial == bytes_to_polynomial(as_bytes(column))
    IN IF ~polynomial.ok THEN FALSE
       ELSE LET computed_column_commitment == commit_polynomial(polynomial.val, gp)
            IN IF ~computed_column_commitment.ok THEN FALSE
               ELSE IF computed_column_commitment.val # column_commitment THEN FALSE
               ELSE LET column_hash == hash_column_and_commitment(column, column_commitment)
                        element == field_element_from_bytes_le(column_hash)
                    IN verify_element_proof(index, element, aggregated_column_commitment,
                                            aggregated_column_proof, gp)

\* DaVerifier::verify_chunk
verify_chunk(chunk, commitment, proof, index, gp) ==
    LET element == field_element_from_bytes_le(chunk)
    IN verify_element_proof(index, element, commitment, proof, gp)


\* a loop that returns after its first row
verify_chunks_from_FirstOnly(j, chunks, commitments, proofs, index, gp) ==
    IF j > Len(chunks) \/ j > Len(commitments) \/ j > Len(proofs) THEN TRUE
    ELSE verify_chunk(chunks[j], commitments[j], proofs[j], index, gp)

RECURSIVE verify_chunks_from(_, _, _, _, _, _)
\* the loop of verify_chunks from row j on: izip! ends with the shortest of
\* the three sequences, the loop stops at the first failing row
verify_chunks_from(j, chunks, commitments, proofs, index, gp) ==
    IF j > Len(chunks) \/ j > Len(commitments) \/ j > Len(proofs) THEN TRUE
    ELSE IF ~verify_chunk(chunks[j], commitments[j], proofs[j], index, gp) THEN FALSE
    ELSE verify_chunks_from(j + 1, chunks, commitments, proofs, index, gp)


\* verify_chunks without the comparison of the lengths
verify_chunks_NoLengthCheck(chunks, commitments, proofs, index, gp) ==
    verify_chunks_from(1, chunks, commitments, proofs, index, gp)

\* DaVerifier::verify_chunks
verify_chunks(chunks, commitments, proofs, index, gp) ==
    IF ~(Len(chunks) = Len(commitments) /\ Len(commitments) = Len(proofs))
    THEN FALSE
    ELSE verify_chunks_from(1, chunks, commitments, proofs, index, gp)


\* an attestation over the column bytes
build_attestation_OverColumn(self, blob) ==
    [signature |-> Sign(self.sk, as_bytes(blob.column), <<>>, <<>>)]

\* DaVerifier::build_attestation
build_attestation(self, blob) ==
    LET message == build_attestation_message(blob.aggregated_column_commitment,
                                             blob.rows_commitments)
    IN [signature |-> Sign(self.sk, message, <<>>, <<>>)]

\* the position both gates of verify open at: self.index
position_PinnedToZero(self) == 0

position(self) == self.index

\* DaVerifier::verify as a function: None, or Some(attestation)
DaVerifier_verify(self, blob, gp) ==
    IF ~verify_column(blob.column, blob.column_commitment,
                      blob.aggregated_column_commitment,
                      blob.aggregated_column_proof, position(self), gp)
    THEN None
    ELSE IF ~verify_chunks(blob.column, blob.rows_commitments, blob.rows_proofs,
                           position(self), gp)
    THEN None
    ELSE Some(build_attestation(self, blob))

\* ------------------------------------------------------------------------
\* The dispersal side: the blobs an encoder sends out
\* ------------------------------------------------------------------------
\* a data row is the polynomial a + b.X (two data chunks, extended to the whole
\* domain); its chunks are its evaluations over the domain
RowEvals(row) ==
    [i \in 1..DomainSize |-> FAdd(row[1], FMul(row[2], DomainElement(i - 1)))]

\* the rows a matrix is made of: a constant row, X, and 3 + 2.X
DataRows == {<<1, 0>>, <<0, 1>>, <<3, 2>>}

RECURSIVE SeqsUpTo(_, _)
\* the sequences over S of length at most n
SeqsUpTo(S, n) ==
    IF n = 0 THEN {<<>>}
    ELSE LET shorter == SeqsUpTo(S, n - 1)
         IN shorter \cup {Append(q, x) : q \in {r \in shorter : Len(r) = n - 1}, x \in S}

Matrices == SeqsUpTo(DataRows, MaxRows)

\* column c (from 0) of a matrix: one canonical chunk per row
ColumnOf(matrix, c) ==
    [j \in 1..Len(matrix) |-> to_bytes_le(RowEvals(matrix[j])[c + 1])]

ColumnCommitmentOf(matrix, c, gp) ==
    commit_polynomial(bytes_to_polynomial(as_bytes(ColumnOf(matrix, c))).val, gp).val

\* the polynomial whose evaluations are the hashes of the columns
AggregatedPolynomial(matrix, gp) ==
    interpolate([i \in 1..DomainSize |->
        field_element_from_bytes_le(
            hash_column_and_commitment(ColumnOf(matrix, i - 1),
                                       ColumnCommitmentOf(matrix, i - 1, gp)))])

\* the blob sent to the verifier of column c
EncodeBlob(matrix, c, gp) ==
    [column |-> ColumnOf(matrix, c),
     column_commitment |-> ColumnCommitmentOf(matrix, c, gp),
     aggregated_column_commitment |->
         commit_polynomial(AggregatedPolynomial(matrix, gp), gp).val,
     aggregated_column_proof |->
         generate_element_proof(c, AggregatedPolynomial(matrix, gp), gp),
     rows_commitments |->
         [j \in 1..Len(matrix) |->
             commit_polynomial(interpolate(RowEvals(matrix[j])), gp).val],
     rows_proofs |->
         [j \in 1..Len(matrix) |->
             generate_element_proof(c, interpolate(RowEvals(matrix[j])), gp)]]

\* ------------------------------------------------------------------------
\* Blobs that differ from a given one in a single place
\* ------------------------------------------------------------------------
ChunkSpace == ByteBase ^ BYTES_PER_FIELD_ELEMENT

\* another chunk: one with another field element (d further), one with the
\* same field element and other bytes (P further or P before), the chunk
\* without its last byte, the chunk with one more byte
ChunkTampers(chunk) ==
    ({to_bytes_le((LEValue(chunk) + d) % ChunkSpace) : d \in 1..MaxDelta}
        \cup {to_bytes_le(v) :
                 v \in {LEValue(chunk) + P, LEValue(chunk) - P} \cap (0..(ChunkSpace - 1))}
        \cup {SubSeq(chunk, 1, Len(chunk) - 1) : k \in 1..(IF Len(chunk) > 0 THEN 1 ELSE 0)}
        \cup {Append(chunk, 0)})
    \ {chunk}

GroupTampers(x) == {FAdd(x, d) : d \in 1..MaxDelta}

ProofTampers(proof) ==
    ({[proof EXCEPT !.w = y] : y \in GroupTampers(proof.w)}
        \cup {[proof EXCEPT !.random_v = v] : v \in {None} \cup {Some(d) : d \in 1..MaxDelta}})
    \ {proof}

ZeroProof == [w |-> 0, random_v |-> None]

\* one more or one less element at the end of a sequence
LengthTampers(items, extra) ==
    {Append(items, extra)}
        \cup {SubSeq(items, 1, Len(items) - 1) : k \in 1..(IF Len(items) > 0 THEN 1 ELSE 0)}

Tampered(b) ==
    UNION {{[b EXCEPT !.column[j] = c] : c \in ChunkTampers(b.column[j])} :
              j \in 1..Len(b.column)}
    \cup UNION {{[b EXCEPT !.rows_commitments[j] = c] :
                    c \in GroupTampers(b.rows_commitments[j])} :
                   j \in 1..Len(b.rows_commitments)}
    \cup UNION {{[b EXCEPT !.rows_proofs[j] = pr] :
                    pr \in ProofTampers(b.rows_proofs[j])} :
                   j \in 1..Len(b.rows_proofs)}
    \cup {[b EXCEPT !.column_commitment = c] : c \in GroupTampers(b.column_commitment)}
    \cup {[b EXCEPT !.aggregated_column_commitment = c] :
             c \in GroupTampers(b.aggregated_column_commitment)}
    \cup {[b EXCEPT !.aggregated_column_proof = pr] :
             pr \in ProofTampers(b.aggregated_column_proof)}
    \cup {[b EXCEPT !.column = c] : c \in LengthTampers(b.column, to_bytes_le(0))}
    \cup {[b EXCEPT !.rows_commitments = c] : c \in LengthTampers(b.rows_commitments, 0)}
    \cup {[b EXCEPT !.rows_proofs = c] : c \in LengthTampers(b.rows_proofs, ZeroProof)}

\* ------------------------------------------------------------------------
\* State
\* ------------------------------------------------------------------------
VARIABLES
    global_parameters,  \* GLOBAL_PARAMETERS, shared by every call
    verifier,           \* the DaVerifier: state ("none" before new), sk, index
    new_frame,          \* the arguments of the DaVerifier::new call that built it
    pc,                 \* position of the running verify call
    blob,               \* the blob the call was given
    blob_id,            \* blob.id(), taken on entry
    result,             \* what the call returns
    prev,               \* the completed earlier call of the same verifier
    calls,              \* the verify calls that run side by side, by call id
    debug_assertions,   \* the build: debug_assert! is compiled in or not
    toeplitz1_cache,    \* the Toeplitz1Cache the caller built, if any
    generation,         \* the fk20_batch_generate_elements_proofs calls, by call id
    sent,               \* the arguments and the outcome of Packet::build
    packet,             \* the packet on its way to the next recipient
    unpacked,           \* what each Packet::unpack call was given and returned
    evaluated,          \* the steps the verify call has evaluated, in order
    parsed,             \* what Packet::from_bytes was given and returned
    input_stream,       \* MessageBlendStream: the input messages that are ready
    arrived,            \* the number of messages the input stream has made ready
    consumed,           \* the input messages poll_next has taken, in order
    temporal_sender,    \* the messages sent to the temporal processor, in order
    output_stream,      \* the messages the temporal processor holds back
    emitted,            \* the items poll_next has returned
    inbound_relay,      \* NetworkService: the relay messages waiting, open or closed
    lifecycle_stream,   \* the lifecycle messages waiting, open or closed
    run,                \* the position of NetworkService::run
    backend,            \* the relay messages the backend has handled, in order
    signals             \* the shutdown acknowledgements sent, in order

\* the variables of one verify call
call_vars == <<new_frame, pc, blob, blob_id, result, prev>>
\* the variables of the side-by-side verify calls
conc_vars == <<calls>>
\* the variables of proof generation
fk_vars == <<debug_assertions, toeplitz1_cache, generation>>
\* the variables of the mix packet
pkt_vars == <<sent, packet, unpacked>>

\* the steps of the gates of one verify call
gate_vars == <<evaluated>>
\* the variables of packet parsing
wire_vars == <<parsed>>
\* the variables of the message blend stream
blend_vars == <<input_stream, arrived, consumed, temporal_sender, output_stream, emitted>>
\* the variables of the mix network service
svc_vars == <<inbound_relay, lifecycle_stream, run, backend, signals>>
\* the variables of the mix components
mix_vars == <<blend_vars, svc_vars>>
\* the variables of the components that run beside the verifier
other_vars == <<gate_vars, wire_vars, mix_vars>>

vars == <<global_parameters, verifier, call_vars, conc_vars, fk_vars, pkt_vars, other_vars>>

EmptyBlob ==
    [column |-> <<>>, column_commitment |-> 0, aggregated_column_commitment |-> 0,
     aggregated_column_proof |-> ZeroProof, rows_commitments |-> <<>>,
     rows_proofs |-> <<>>]

NoVerifier == [state |-> "none", sk |-> 0, index |-> 0]
NoFrame == [valid |-> FALSE, sk |-> 0, nodes_public_keys |-> <<>>]
NoPrev == [valid |-> FALSE, blob |-> EmptyBlob, blob_id |-> <<>>,
           self |-> NoVerifier, result |-> None]

\* nothing but the verifier is in use
NoCalls == <<>>
NoCache == [state |-> "none", size |-> 0, v |-> <<>>]
NoGeneration == <<>>
NoPacket == <<>>

NothingElse ==
    /\ calls = NoCalls
    /\ debug_assertions = TRUE
    /\ toeplitz1_cache = NoCache
    /\ generation = NoGeneration
    /\ sent = NoPacket
    /\ packet = NoPacket
    /\ unpacked = <<>>

\* no other component is in use
\* NetworkService::run before it is called
NotRunning == [pc |-> "idle", result |-> "", stopped_by |-> ""]

\* a channel with nothing in it
EmptyChannel == [queue |-> <<>>, closed |-> FALSE]

NothingMore ==
    /\ evaluated = <<>>
    /\ parsed = <<>>
    /\ input_stream = <<>>
    /\ arrived = 0
    /\ consumed = <<>>
    /\ temporal_sender = <<>>
    /\ output_stream = <<>>
    /\ emitted = <<>>
    /\ inbound_relay = EmptyChannel
    /\ lifecycle_stream = EmptyChannel
    /\ run = NotRunning
    /\ backend = <<>>
    /\ signals = <<>>

Keys == 1..NumKeys
Rosters == SeqsUpTo({sk_to_pk(k) : k \in Keys}, MaxRoster)

Init ==
    /\ global_parameters = GLOBAL_PARAMETERS
    /\ verifier = NoVerifier
    /\ new_frame = NoFrame
    /\ pc = "idle"
    /\ blob = EmptyBlob
    /\ blob_id = <<>>
    /\ result = None
    /\ prev = NoPrev
    /\ NothingElse
    /\ NothingMore

\* ------------------------------------------------------------------------
\* Operations
\* ------------------------------------------------------------------------
\* DaVerifier::new(sk, nodes_public_keys)
New(sk, nodes_public_keys) ==
    /\ verifier.state = "none"
    /\ verifier' = DaVerifier_new(sk, nodes_public_keys)
    /\ new_frame' = [valid |-> TRUE, sk |-> sk, nodes_public_keys |-> nodes_public_keys]
    /\ UNCHANGED <<global_parameters, pc, blob, blob_id, result, prev>>
    /\ UNCHANGED <<conc_vars, fk_vars, pkt_vars, other_vars>>


\* a column gate that unwraps the byte-to-polynomial conversion
AfterColumnGate_Unwrap(self, b, gp) ==
    IF ~bytes_to_polynomial(as_bytes(b.column)).ok THEN "Panicked"
    ELSE IF ~verify_column(b.column, b.column_commitment, b.aggregated_column_commitment,
                           b.aggregated_column_proof, position(self), gp)
    THEN "Rejected"
    ELSE "ColumnChecked"

\* a column gate that turns away a blob whose id it has seen
AfterColumnGate_SeenBefore(self, b, gp) ==
    IF prev.valid /\ prev.blob_id = DaBlob_id(b) THEN "Rejected"
    ELSE IF ~verify_column(b.column, b.column_commitment, b.aggregated_column_commitment,
                           b.aggregated_column_proof, position(self), gp)
    THEN "Rejected"
    ELSE "ColumnChecked"

\* the position verify is at after the column gate (verify, column check)
AfterColumnGate(self, b, gp) ==
    IF ~verify_column(b.column, b.column_commitment, b.aggregated_column_commitment,
                      b.aggregated_column_proof, position(self), gp)
    THEN "Rejected"
    ELSE "ColumnChecked"


\* a row gate that is passed without a check
AfterRowsGate_Skipped(self, b, gp) == "RowsChecked"

\* the position verify is at after the row gate (verify, chunks check)
AfterRowsGate(self, b, gp) ==
    IF ~verify_chunks(b.column, b.rows_commitments, b.rows_proofs, position(self), gp)
    THEN "Rejected"
    ELSE "RowsChecked"

\* verify is entered with a blob encoded for the own or for the next column
Receive(b) ==
    /\ verifier.state = "ok"
    /\ pc = "idle"
    /\ pc' = "Received"
    /\ blob' = b
    /\ blob_id' = DaBlob_id(b)
    /\ result' = None
    /\ new_frame' = NoFrame
    /\ UNCHANGED <<global_parameters, verifier, prev>>
    /\ UNCHANGED <<conc_vars, fk_vars, pkt_vars, other_vars>>

\* verify is entered a second time, with the same blob or one that differs
\* from it in a single place
ReceiveAgain(b) ==
    /\ pc \in {"Attested", "Rejected"}
    /\ ~prev.valid
    /\ prev' = [valid |-> TRUE, blob |-> blob, blob_id |-> blob_id,
                self |-> verifier, result |-> result]
    /\ pc' = "Received"
    /\ blob' = b
    /\ blob_id' = DaBlob_id(b)
    /\ result' = None
    /\ UNCHANGED <<global_parameters, verifier, new_frame>>
    /\ UNCHANGED <<conc_vars, fk_vars, pkt_vars, other_vars>>

ColumnGate ==
    /\ pc = "Received"
    /\ pc' = AfterColumnGate(verifier, blob, global_parameters)
    /\ result' = None
    /\ UNCHANGED <<global_parameters, verifier, new_frame, blob, blob_id, prev>>
    /\ UNCHANGED <<conc_vars, fk_vars, pkt_vars, other_vars>>

RowsGate ==
    /\ pc = "ColumnChecked"
    /\ pc' = AfterRowsGate(verifier, blob, global_parameters)
    /\ result' = None
    /\ UNCHANGED <<global_parameters, verifier, new_frame, blob, blob_id, prev>>
    /\ UNCHANGED <<conc_vars, fk_vars, pkt_vars, other_vars>>

Attest ==
    /\ pc = "RowsChecked"
    /\ pc' = "Attested"
    /\ result' = Some(build_attestation(verifier, blob))
    /\ UNCHANGED <<global_parameters, verifier, new_frame, blob, blob_id, prev>>
    /\ UNCHANGED <<conc_vars, fk_vars, pkt_vars, other_vars>>

Next ==
    \/ \E sk \in Keys, r \in Rosters : New(sk, r)
    \/ \E m \in Matrices, c \in {verifier.index, (verifier.index + 1) % DomainSize} :
           Receive(EncodeBlob(m, c, global_parameters))
    \/ \E b \in {blob} \cup Tampered(blob) : ReceiveAgain(b)
    \/ ColumnGate
    \/ RowsGate
    \/ Attest

Spec == Init /\ [][Next]_vars

\* ------------------------------------------------------------------------
\* Properties
\* ------------------------------------------------------------------------
Terminal == pc \in {"Attested", "Rejected"}

\* the checks of the two gates, stated on a blob and a position
PolynomialOf(b) == bytes_to_polynomial(as_bytes(b.column))

CommitmentMatches(b, gp) ==
    /\ PolynomialOf(b).ok
    /\ commit_polynomial(PolynomialOf(b).val, gp).ok
    /\ commit_polynomial(PolynomialOf(b).val, gp).val = b.column_commitment

AggregatedOpeningHolds(b, i, gp) ==
    verify_element_proof(
        i,
        field_element_from_bytes_le(hash_column_and_commitment(b.column, b.column_commitment)),
        b.aggregated_column_commitment, b.aggregated_column_proof, gp)

LengthsEqual(b) ==
    Len(b.column) = Len(b.rows_commitments) /\ Len(b.rows_commitments) = Len(b.rows_proofs)

RowOpeningHolds(b, j, i, gp) ==
    verify_element_proof(i, field_element_from_bytes_le(b.column[j]),
                         b.rows_commitments[j], b.rows_proofs[j], gp)

\* C1: an attestation is returned only if both gates passed: the recomputed
\* column commitment equals column_commitment, the aggregated column proof
\* opens at the verifier's index, the three sequences have equal length and
\* every row opens at the verifier's index; a rejected call returns nothing.
C1_AttestationOnlyAfterBothGates ==
    /\ (result # None) <=> (pc = "Attested")
    /\ result # None =>
          /\ CommitmentMatches(blob, global_parameters)
          /\ AggregatedOpeningHolds(blob, verifier.index, global_parameters)
          /\ LengthsEqual(blob)
          /\ \A j \in 1..Len(blob.column) :
                 RowOpeningHolds(blob, j, verifier.index, global_parameters)

C1_Witness == result # None /\ Len(blob.column) >= 2 /\ prev.valid /\ blob # prev.blob

\* C2: a blob whose column, rows_commitments and rows_proofs do not all have
\* the same length never gets past the row gate and yields no attestation.
C2_LengthMismatchRejected ==
    ~LengthsEqual(blob) =>
        /\ result = None
        /\ pc \notin {"RowsChecked", "Attested"}

\* a blob of unequal lengths has passed the column gate and was rejected
C2_Witness ==
    /\ pc = "Rejected"
    /\ ~LengthsEqual(blob)
    /\ CommitmentMatches(blob, global_parameters)
    /\ AggregatedOpeningHolds(blob, verifier.index, global_parameters)

\* b2 is b1 with one chunk of the column replaced
ChunkChanged(b1, b2) ==
    /\ Len(b1.column) = Len(b2.column)
    /\ \E j \in 1..Len(b1.column) :
           b1.column[j] # b2.column[j] /\ b2 = [b1 EXCEPT !.column[j] = b2.column[j]]

\* b2 is b1 with one row commitment replaced
RowCommitmentChanged(b1, b2) ==
    /\ Len(b1.rows_commitments) = Len(b2.rows_commitments)
    /\ \E j \in 1..Len(b1.rows_commitments) :
           /\ b1.rows_commitments[j] # b2.rows_commitments[j]
           /\ b2 = [b1 EXCEPT !.rows_commitments[j] = b2.rows_commitments[j]]

\* b2 is b1 with one row proof replaced
RowProofChanged(b1, b2) ==
    /\ Len(b1.rows_proofs) = Len(b2.rows_proofs)
    /\ \E j \in 1..Len(b1.rows_proofs) :
           /\ b1.rows_proofs[j] # b2.rows_proofs[j]
           /\ b2 = [b1 EXCEPT !.rows_proofs[j] = b2.rows_proofs[j]]

\* b2 is b1 with one row proof replaced by a proof of another point w
RowProofPointChanged(b1, b2) ==
    /\ Len(b1.rows_proofs) = Len(b2.rows_proofs)
    /\ \E j \in 1..Len(b1.rows_proofs) :
           /\ b1.rows_proofs[j].w # b2.rows_proofs[j].w
           /\ b2 = [b1 EXCEPT !.rows_proofs[j] = b2.rows_proofs[j]]

AcceptedBefore == prev.valid /\ prev.result # None /\ prev.self = verifier

\* C3 as stated: after a blob was accepted, the blob with one chunk, one row
\* commitment or one row proof replaced is rejected by the same verifier.
C3_AnyTamperRejected ==
    (/\ Terminal
     /\ AcceptedBefore
     /\ \/ ChunkChanged(prev.blob, blob)
        \/ RowCommitmentChanged(prev.blob, blob)
        \/ RowProofChanged(prev.blob, blob))
    => result = None

\* C3 amended: after a blob was accepted, the blob with one chunk, one row
\* commitment or the point w of one row proof replaced is rejected by the
\* same verifier.
C3_TamperRejected ==
    (/\ Terminal
     /\ AcceptedBefore
     /\ \/ ChunkChanged(prev.blob, blob)
        \/ RowCommitmentChanged(prev.blob, blob)
        \/ RowProofPointChanged(prev.blob, blob))
    => result = None

\* a rejected second row whose proof point was replaced, after acceptance
C3_Witness ==
    /\ pc = "Rejected"
    /\ AcceptedBefore
    /\ RowProofPointChanged(prev.blob, blob)
    /\ Len(blob.rows_proofs) >= 2
    /\ blob.rows_proofs[1] = prev.blob.rows_proofs[1]

OtherPositions == (0..(DomainSize - 1)) \ {verifier.index}

AcceptedAt(i) ==
    DaVerifier_verify([verifier EXCEPT !.index = i], blob, global_parameters) # None

\* C4 as stated: a blob attested at the verifier's index is attested at no
\* other index.
C4_IndexBinding ==
    pc = "Attested" => \A i \in OtherPositions : ~AcceptedAt(i)

\* C4 amended: a blob attested at the verifier's index, in which the point w
\* of the aggregated column proof or of some row proof is not the identity,
\* is attested at no other index of the domain.
C4_IndexBindingOfOpenings ==
    (/\ pc = "Attested"
     /\ \/ blob.aggregated_column_proof.w # 0
        \/ \E j \in 1..Len(blob.rows_proofs) : blob.rows_proofs[j].w # 0)
    => \A i \in OtherPositions : ~AcceptedAt(i)

C4_Witness ==
    /\ pc = "Attested"
    /\ verifier.index > 0
    /\ blob.aggregated_column_proof.w # 0
    /\ \E j \in 1..Len(blob.rows_proofs) : blob.rows_proofs[j].w # 0

\* C5: the signature of a returned attestation is made with the verifier's
\* key over the message derived from the aggregated column commitment and the
\* row commitments, which is blob.id(), with empty tag and augmentation; it
\* verifies under the verifier's public key, and no other field of the blob
\* enters it.
C5_SignedMessage ==
    result # None =>
        /\ result[1].signature = Sign(verifier.sk, blob_id, <<>>, <<>>)
        /\ blob_id = commitment_to_bytes(blob.aggregated_column_commitment)
                        \o Concat([j \in 1..Len(blob.rows_commitments) |->
                                      commitment_to_bytes(blob.rows_commitments[j])])
        /\ SigVerify(result[1].signature, blob_id, <<>>, <<>>, sk_to_pk(verifier.sk))
        /\ (/\ prev.valid
            /\ prev.result # None
            /\ prev.blob.aggregated_column_commitment = blob.aggregated_column_commitment
            /\ prev.blob.rows_commitments = blob.rows_commitments)
           => prev.result = result

C5_Witness == result # None /\ Len(blob.rows_commitments) >= 2

\* C6: two blobs with the same aggregated column commitment and the same row
\* commitments have the same id, whatever their other fields are.
C6_IdentityDeterminism ==
    (/\ prev.valid
     /\ prev.blob.aggregated_column_commitment = blob.aggregated_column_commitment
     /\ prev.blob.rows_commitments = blob.rows_commitments)
    => prev.blob_id = blob_id

\* two blobs of one id with different columns
C6_Witness ==
    /\ prev.valid
    /\ prev.blob_id = blob_id
    /\ prev.blob.column # blob.column
    /\ Len(blob.rows_commitments) >= 1

\* one of the failure conditions of verification holds of the blob
FailureCondition(b, i, gp) ==
    \/ ~PolynomialOf(b).ok
    \/ ~CommitmentMatches(b, gp)
    \/ ~AggregatedOpeningHolds(b, i, gp)
    \/ ~LengthsEqual(b)
    \/ \E j \in 1..Len(b.column) : ~RowOpeningHolds(b, j, i, gp)

\* C7: a call never panics, and a call on a blob with a failure condition
\* (column bytes that are no polynomial, commitment mismatch, failed opening
\* at either gate, unequal lengths) ends rejected with no attestation.
C7_FailuresAreNone ==
    /\ pc \in {"idle", "Received", "ColumnChecked", "RowsChecked", "Attested", "Rejected"}
    /\ (Terminal /\ FailureCondition(blob, verifier.index, global_parameters))
         => (pc = "Rejected" /\ result = None)

\* a call on column bytes that are no polynomial has ended
C7_Witness == pc = "Rejected" /\ ~PolynomialOf(blob).ok

\* the roster is in ascending order
IsSorted(keys) == \A p, q \in 1..Len(keys) : p < q => keys[p] <= keys[q]

\* the number of roster entries before pk in ascending order
Rank(pk, keys) == Cardinality({p \in 1..Len(keys) : keys[p] < pk})

Registered == new_frame.valid /\ verifier.state = "ok"

\* C8 as stated: for every roster holding the key, new sets index to the
\* position of the key in the ascending order of the roster.
C8_IndexIsRank ==
    Registered => verifier.index = Rank(sk_to_pk(new_frame.sk), new_frame.nodes_public_keys)

\* C8 amended: for every roster in ascending order holding the key, new sets
\* index to the position of the key in that order, and the index never
\* changes afterwards.
C8_IndexIsRankOfSorted ==
    /\ [](Registered /\ IsSorted(new_frame.nodes_public_keys)
            => verifier.index = Rank(sk_to_pk(new_frame.sk), new_frame.nodes_public_keys))
    /\ [][verifier.state = "ok" => verifier' = verifier]_vars

C8_Witness ==
    /\ Registered
    /\ IsSorted(new_frame.nodes_public_keys)
    /\ verifier.index >= 1

\* C9: new fails when the public key of the signing key is not in the roster
\* (the empty roster included); a verifier that was not built verifies nothing.
C9_UnregisteredKeyFails ==
    /\ (/\ new_frame.valid
        /\ \A p \in 1..Len(new_frame.nodes_public_keys) :
               new_frame.nodes_public_keys[p] # sk_to_pk(new_frame.sk))
       => verifier.state = "panicked"
    /\ verifier.state # "ok" => (pc = "idle" /\ result = None)

C9_Witness ==
    /\ verifier.state = "panicked"
    /\ Len(new_frame.nodes_public_keys) >= 1

\* C10: two calls of one verifier on equal blobs end alike, a rejected call is
\* not retried, and no step of a call changes the verifier or the global
\* parameters.
C10_PureCall ==
    /\ []((Terminal /\ prev.valid /\ prev.blob = blob /\ prev.self = verifier)
            => prev.result = result)
    /\ [][pc = "Rejected" => pc' \in {"Rejected", "Received"}]_vars
    /\ [][pc # "idle" => (verifier' = verifier /\ global_parameters' = global_parameters)]_vars

\* the second of two calls on one blob has ended with an attestation
C10_Witness ==
    /\ pc = "Attested"
    /\ prev.valid
    /\ prev.blob = blob
    /\ Len(blob.column) >= 1

\* ------------------------------------------------------------------------
\* Several verify calls of one verifier, side by side
\* ------------------------------------------------------------------------
\* the calls that run side by side
NumCalls == 2
CallIds == 1..NumCalls

IdleCall == [pc |-> "idle", blob |-> EmptyBlob, row |-> 0, result |-> None]

\* the roster of the side-by-side calls: every key, in the order of the keys
FullRoster == [k \in 1..NumKeys |-> sk_to_pk(k)]

\* the matrices dispersed to the side-by-side calls: MaxRows rows X, or
\* MaxRows rows 3 + 2.X
ConcMatrices == {[j \in 1..MaxRows |-> r] : r \in {<<0, 1>>, <<3, 2>>}}

\* a blob whose last row proof is not the proof of the row
LastProofTampered(b) ==
    [b EXCEPT !.rows_proofs[Len(b.rows_proofs)].w = FAdd(@, 1)]

\* the verifiers of the side-by-side calls
ConcVerifiers == {DaVerifier_new(sk, FullRoster) : sk \in Keys}

\* the blobs handed to the calls of a verifier: encoded for the own or for the
\* next column, as encoded or with the last row proof replaced
ConcBlobs ==
    [v \in ConcVerifiers |->
        LET encoded == {EncodeBlob(m, c, GLOBAL_PARAMETERS) :
                           m \in ConcMatrices, c \in {v.index, (v.index + 1) % DomainSize}}
        IN encoded \cup {LastProofTampered(b) : b \in encoded}]

ConcInit ==
    /\ global_parameters = GLOBAL_PARAMETERS
    /\ verifier \in ConcVerifiers
    /\ calls = [c \in CallIds |-> IdleCall]
    /\ new_frame = NoFrame
    /\ pc = "idle"
    /\ blob = EmptyBlob
    /\ blob_id = <<>>
    /\ result = None
    /\ prev = NoPrev
    /\ debug_assertions = TRUE
    /\ toeplitz1_cache = NoCache
    /\ generation = NoGeneration
    /\ sent = NoPacket
    /\ packet = NoPacket
    /\ unpacked = <<>>
    /\ NothingMore


\* every call working on the frame of the first call
CallFrame_Shared(c) == calls[1]

\* the frame of call c: the blob moved into verify and the locals of the call
CallFrame(c) == calls[c]


\* a loop that does not move on to the next row
NextRow_Stuck(row) == row

\* izip!: the row after this one
NextRow(row) == row + 1

\* the column gate of verify on the blobs of the calls, by verifier and blob
\* (the global parameters are the ones of Init)
ColumnGateOutcome ==
    [v \in ConcVerifiers |->
        [b \in ConcBlobs[v] \cup {EmptyBlob} |-> AfterColumnGate(v, b, GLOBAL_PARAMETERS)]]

\* verify is entered by call c with a blob no other running call holds
CallEnter(c, b) ==
    /\ calls[c].pc = "idle"
    /\ \A o \in CallIds \ {c} : calls[o].pc = "idle" \/ calls[o].blob # b
    /\ calls' = [calls EXCEPT ![c] = [pc |-> "Received", blob |-> b, row |-> 0,
                                      result |-> None]]
    /\ UNCHANGED <<global_parameters, verifier, call_vars, fk_vars, pkt_vars, other_vars>>

\* the column gate of call c
CallColumnGate(c) ==
    /\ calls[c].pc = "Received"
    /\ calls' = [calls EXCEPT ![c].pc = ColumnGateOutcome[verifier][CallFrame(c).blob]]
    /\ UNCHANGED <<global_parameters, verifier, call_vars, fk_vars, pkt_vars, other_vars>>

\* verify_chunks of call c, the comparison of the three lengths
CallLengthCheck(c) ==
    /\ calls[c].pc = "ColumnChecked"
    /\ calls[c].row = 0
    /\ LET b == CallFrame(c).blob
       IN IF ~(Len(b.column) = Len(b.rows_commitments)
                 /\ Len(b.rows_commitments) = Len(b.rows_proofs))
          THEN calls' = [calls EXCEPT ![c].pc = "Rejected"]
          ELSE calls' = [calls EXCEPT ![c].row = 1]
    /\ UNCHANGED <<global_parameters, verifier, call_vars, fk_vars, pkt_vars, other_vars>>

\* verify_chunks of call c, one turn of the loop over the rows
CallRow(c) ==
    /\ calls[c].pc = "ColumnChecked"
    /\ calls[c].row >= 1
    /\ LET b == CallFrame(c).blob
           j == calls[c].row
       IN IF j > Len(b.column)
          THEN calls' = [calls EXCEPT ![c].pc = "RowsChecked"]
          ELSE IF ~verify_chunk(b.column[j], b.rows_commitments[j], b.rows_proofs[j],
                                position(verifier), global_parameters)
          THEN calls' = [calls EXCEPT ![c].pc = "Rejected"]
          ELSE calls' = [calls EXCEPT ![c].row = NextRow(j)]
    /\ UNCHANGED <<global_parameters, verifier, call_vars, fk_vars, pkt_vars, other_vars>>

\* call c builds its attestation and returns it
CallAttest(c) ==
    /\ calls[c].pc = "RowsChecked"
    /\ calls' = [calls EXCEPT ![c].pc = "Attested",
                              ![c].result = Some(build_attestation(verifier, CallFrame(c).blob))]
    /\ UNCHANGED <<global_parameters, verifier, call_vars, fk_vars, pkt_vars, other_vars>>

\* the caller of call c takes the outcome; the call id is free again
CallReturn(c) ==
    /\ calls[c].pc \in {"Attested", "Rejected"}
    /\ calls' = [calls EXCEPT ![c] = IdleCall]
    /\ UNCHANGED <<global_parameters, verifier, call_vars, fk_vars, pkt_vars, other_vars>>

\* a step of the running call c
CallStep(c) == CallColumnGate(c) \/ CallLengthCheck(c) \/ CallRow(c) \/ CallAttest(c)

ConcNext ==
    \/ \E c \in CallIds, b \in ConcBlobs[verifier] : CallEnter(c, b)
    \/ \E c \in CallIds : CallColumnGate(c)
    \/ \E c \in CallIds : CallLengthCheck(c)
    \/ \E c \in CallIds : CallRow(c)
    \/ \E c \in CallIds : CallAttest(c)
    \/ \E c \in CallIds : CallReturn(c)

ConcurrentSpec == ConcInit /\ [][ConcNext]_vars

\* a call is a synchronous function call on a thread of its own: a running
\* call takes its next step
FairConcurrentSpec == ConcurrentSpec /\ \A c \in CallIds : WF_vars(CallStep(c))

CallTerminal(c) == calls[c].pc \in {"Attested", "Rejected"}
CallRunning(c) == calls[c].pc \in {"Received", "ColumnChecked", "RowsChecked"}

\* C11: in every interleaving of the steps of verify calls on distinct blobs,
\* a call that has ended has the outcome DaVerifier::verify has on its blob
\* alone, and no step writes the global parameters.
C11_NoInterference ==
    /\ [](\A c \in CallIds :
             CallTerminal(c) =>
                 calls[c].result = DaVerifier_verify(verifier, calls[c].blob, global_parameters))
    /\ [][global_parameters' = global_parameters]_vars

\* two calls have ended side by side, one attested and one rejected at a row
C11_Witness ==
    /\ calls[1].pc = "Rejected"
    /\ calls[1].row >= 1
    /\ calls[2].pc = "Attested"
    /\ calls[1].blob # calls[2].blob

\* C12: every verify call that was entered reaches a terminal outcome,
\* Attested or Rejected; an outcome once reached is not exchanged for the
\* other; a result is returned by an attested call and by no other.
C12_CallTerminates ==
    /\ \A c \in CallIds : CallRunning(c) ~> CallTerminal(c)
    /\ [][\A c \in CallIds :
             CallTerminal(c) => calls'[c].pc \in {calls[c].pc, "idle"}]_vars
    /\ [](\A c \in CallIds : calls[c].result # None <=> calls[c].pc = "Attested")

\* a call has gone through every row of its column and has ended attested
C12_Witness ==
    \E c \in CallIds :
        /\ calls[c].pc = "Attested"
        /\ calls[c].row = MaxRows + 1
        /\ calls[c].result # None

\* ------------------------------------------------------------------------
\* Evaluation domains and Fourier transforms (ark_poly, as fk20.rs uses them)
\* ------------------------------------------------------------------------
\* the field has a subgroup of 2^TWO_ADICITY roots of unity, generated by
\* TWO_ADIC_ROOT_OF_UNITY
TWO_ADICITY == 4
TWO_ADIC_ROOT_OF_UNITY == 6

RECURSIVE NextPowerOfTwoFrom(_, _)
NextPowerOfTwoFrom(p, n) == IF p >= n THEN p ELSE NextPowerOfTwoFrom(2 * p, n)

\* usize::next_power_of_two
next_power_of_two(n) == NextPowerOfTwoFrom(1, n)

\* usize::is_power_of_two
is_power_of_two(n) == n > 0 /\ next_power_of_two(n) = n

\* GeneralEvaluationDomain::new(n): the domain of the smallest power of two
\* that is at least n, given by its size; None when the field has no such
\* subgroup
GeneralEvaluationDomain_new(n) ==
    IF next_power_of_two(n) > 2 ^ TWO_ADICITY THEN None ELSE Some(next_power_of_two(n))

\* the generator of the domain of a size
group_gen(size) == FPow(TWO_ADIC_ROOT_OF_UNITY, (2 ^ TWO_ADICITY) \div size)

\* Vec::resize(n, zero)
resize(v, n) == [k \in 1..n |-> IF k <= Len(v) THEN v[k] ELSE 0]

\* domain.fft: the input cut or zero-padded to the size of the domain, then
\* evaluated at every point of the domain
fft(size, v) ==
    [i \in 1..size |->
        SumTo([k \in 1..size |->
                  FMul(resize(v, size)[k], FPow(group_gen(size), (i - 1) * (k - 1)))],
              size)]

\* domain.ifft_in_place
ifft(size, v) ==
    [k \in 1..size |->
        FMul(FInv(size % P),
             SumTo([i \in 1..size |->
                       FMul(resize(v, size)[i],
                            FPow(FInv(group_gen(size)), (i - 1) * (k - 1)))],
                   size))]

\* ------------------------------------------------------------------------
\* FK20 batch proof generation (kzgrs/src/fk20.rs)
\* ------------------------------------------------------------------------
\* a panic (expect, debug_assert!)
Panic == [ok |-> FALSE, val |-> <<>>]

\* iter().take(n)
Take(items, n) == SubSeq(items, 1, IF n <= Len(items) THEN n ELSE Len(items))

\* iter().rev()
Reverse(items) == [k \in 1..Len(items) |-> items[Len(items) + 1 - k]]

\* repeat(zero).take(n)
Zeros(n) == [k \in 1..n |-> 0]

\* toeplitz1: the debug assertions exist in a build with debug_assertions only
toeplitz1(powers, polynomial_degree) ==
    IF debug_assertions /\ Len(powers) # polynomial_degree THEN Panic
    ELSE IF debug_assertions /\ ~is_power_of_two(polynomial_degree) THEN Panic
    ELSE IF GeneralEvaluationDomain_new(polynomial_degree * 2) = None THEN Panic
    ELSE Ok(fft(GeneralEvaluationDomain_new(polynomial_degree * 2)[1],
                powers \o Zeros(polynomial_degree)))

\* toeplitz2: zip ends with the shorter of the two sequences
toeplitz2(coefficients, extended_vector) ==
    IF debug_assertions /\ ~is_power_of_two(Len(coefficients)) THEN Panic
    ELSE IF GeneralEvaluationDomain_new(Len(coefficients)) = None THEN Panic
    ELSE LET toeplitz_coefficients_fft ==
                 fft(GeneralEvaluationDomain_new(Len(coefficients))[1], coefficients)
             n == IF Len(extended_vector) <= Len(toeplitz_coefficients_fft)
                  THEN Len(extended_vector) ELSE Len(toeplitz_coefficients_fft)
         IN Ok([k \in 1..n |-> FMul(extended_vector[k], toeplitz_coefficients_fft[k])])

\* toeplitz3
toeplitz3(h_extended_fft) ==
    IF GeneralEvaluationDomain_new(Len(h_extended_fft)) = None THEN Panic
    ELSE Ok(ifft(GeneralEvaluationDomain_new(Len(h_extended_fft))[1], h_extended_fft))

\* Toeplitz1Cache::with_size
Toeplitz1Cache_with_size(gp, polynomial_degree) ==
    toeplitz1(Reverse(Take(gp.powers_of_g, polynomial_degree)), polynomial_degree)

\* fk20_batch_generate_elements_proofs, the entry: the debug assertions and
\* the domain of the polynomial
fk20_entry(polynomial, gp) ==
    IF debug_assertions /\ ~(Len(polynomial) <= Len(gp.powers_of_g)) THEN Panic
    ELSE IF debug_assertions /\ ~is_power_of_two(Len(polynomial)) THEN Panic
    ELSE IF GeneralEvaluationDomain_new(Len(polynomial)) = None THEN Panic
    ELSE Ok(GeneralEvaluationDomain_new(Len(polynomial))[1])


\* fk20_batch_generate_elements_proofs, the extended vector: borrowed from the
\* cache (None, or Some(v)) or computed
fk20_extended_vector(polynomial, gp, cache) ==
    IF cache # None THEN Ok(cache[1])
    ELSE toeplitz1(Reverse(Take(gp.powers_of_g, Len(polynomial))), Len(polynomial))

\* fk20_batch_generate_elements_proofs, the h vector
fk20_h_vector(polynomial, extended_vector) ==
    LET toeplitz_coefficients == Zeros(Len(polynomial)) \o polynomial
        h_extended_vector == toeplitz2(toeplitz_coefficients, extended_vector)
    IN IF ~h_extended_vector.ok THEN Panic ELSE toeplitz3(h_extended_vector.val)


\* fk20_batch_generate_elements_proofs, the proofs: w = w + random_v * G for
\* the random_v drawn for the proof
fk20_blind(h_vector, size, gp, random_vs) ==
    [i \in 1..size |->
        [w |-> FAdd(fft(size, h_vector)[i], FMul(gp.powers_of_g[1], random_vs[i])),
         random_v |-> Some(random_vs[i])]]

\* fk20_batch_generate_elements_proofs as a function of its arguments and of
\* the field elements the generator draws
fk20_batch_generate_elements_proofs(polynomial, gp, cache, random_vs) ==
    LET entry == fk20_entry(polynomial, gp)
        extended_vector == fk20_extended_vector(polynomial, gp, cache)
        h_vector == fk20_h_vector(polynomial, extended_vector.val)
    IN IF ~entry.ok \/ ~extended_vector.ok THEN Panic
       ELSE IF ~h_vector.ok THEN Panic
       ELSE Ok(fk20_blind(h_vector.val, entry.val, gp, random_vs))

\* the field elements one proof's blinding term is drawn from: 0..MaxBlind
MaxBlind == 1

\* the generation calls that share a cache
NumGenerations == 2
GenIds == 1..NumGenerations

\* the field elements drawn for n proofs
Draws(n) == [1..n -> 0..MaxBlind]

\* global parameters of a setup with fewer powers
ShortParameters == [GLOBAL_PARAMETERS EXCEPT !.powers_of_g = Take(@, 2)]

\* polynomials of 1, 2, 3 and 4 coefficients
FkPolynomials == {<<2>>, <<1, 1>>, <<0, 3>>, <<1, 2, 3>>, <<1, 2, 0, 3>>}

\* the sizes a cache is built for
FkDegrees == 1..SrsLen

IdleGeneration ==
    [pc |-> "idle", polynomial |-> <<>>, cached |-> FALSE, size |-> 0,
     extended_vector |-> <<>>, h_vector |-> <<>>, proofs |-> <<>>]

FkInit ==
    /\ global_parameters \in {GLOBAL_PARAMETERS, ShortParameters}
    /\ debug_assertions \in BOOLEAN
    /\ toeplitz1_cache = NoCache
    /\ generation = [c \in GenIds |-> IdleGeneration]
    /\ verifier = NoVerifier
    /\ new_frame = NoFrame
    /\ pc = "idle"
    /\ blob = EmptyBlob
    /\ blob_id = <<>>
    /\ result = None
    /\ prev = NoPrev
    /\ calls = NoCalls
    /\ sent = NoPacket
    /\ packet = NoPacket
    /\ unpacked = <<>>
    /\ NothingMore

\* Toeplitz1Cache::with_size(&global_parameters, polynomial_degree), once
WithSize(polynomial_degree) ==
    /\ toeplitz1_cache.state = "none"
    /\ LET built == Toeplitz1Cache_with_size(global_parameters, polynomial_degree)
       IN toeplitz1_cache' =
              IF built.ok
              THEN [state |-> "built", size |-> polynomial_degree, v |-> built.val]
              ELSE [state |-> "panicked", size |-> polynomial_degree, v |-> <<>>]
    /\ UNCHANGED <<global_parameters, verifier, call_vars, conc_vars, pkt_vars, other_vars>>
    /\ UNCHANGED <<debug_assertions, generation>>

\* the cache argument of call c: Some(&cache) or None
CacheArgument(c) == IF generation[c].cached THEN Some(toeplitz1_cache.v) ELSE None


\* a product computed in place, in the vector borrowed from the cache
CacheAfterGeneration_InPlace(cache, h_extended_vector) ==
    [cache EXCEPT !.v = h_extended_vector]

\* the cache after a call has multiplied its extended vector with the
\* coefficients: the call iterates over a shared reference, the cache is as it
\* was
CacheAfterGeneration(cache, h_extended_vector) == cache

\* fk20_batch_generate_elements_proofs is entered by call c; a cache is
\* passed only if it was built for the degree of the polynomial
GenEnter(c, polynomial, use_cache) ==
    /\ generation[c].pc = "idle"
    /\ use_cache => (toeplitz1_cache.state = "built"
                        /\ toeplitz1_cache.size = Len(polynomial))
    /\ LET entry == fk20_entry(polynomial, global_parameters)
       IN generation' =
              [generation EXCEPT ![c] =
                  [IdleGeneration EXCEPT !.pc = IF entry.ok THEN "entered" ELSE "panicked",
                                         !.polynomial = polynomial,
                                         !.cached = use_cache,
                                         !.size = IF entry.ok THEN entry.val ELSE 0]]
    /\ UNCHANGED <<global_parameters, verifier, call_vars, conc_vars, pkt_vars, other_vars>>
    /\ UNCHANGED <<debug_assertions, toeplitz1_cache>>

\* call c takes the extended vector from the cache or computes it
GenExtend(c) ==
    /\ generation[c].pc = "entered"
    /\ LET extended_vector ==
               fk20_extended_vector(generation[c].polynomial, global_parameters,
                                    CacheArgument(c))
       IN /\ generation' =
                 [generation EXCEPT
                     ![c].pc = IF extended_vector.ok THEN "extended" ELSE "panicked",
                     ![c].extended_vector = extended_vector.val]
    /\ UNCHANGED <<global_parameters, verifier, call_vars, conc_vars, pkt_vars, other_vars>>
    /\ UNCHANGED <<debug_assertions, toeplitz1_cache>>

\* call c computes the h vector (toeplitz2, toeplitz3)
GenToeplitz(c) ==
    /\ generation[c].pc = "extended"
    /\ LET h_vector == fk20_h_vector(generation[c].polynomial, generation[c].extended_vector)
           h_extended_vector ==
               toeplitz2(Zeros(Len(generation[c].polynomial)) \o generation[c].polynomial,
                         generation[c].extended_vector)
       IN /\ generation' =
                 [generation EXCEPT ![c].pc = IF h_vector.ok THEN "toeplitz" ELSE "panicked",
                                    ![c].h_vector = h_vector.val]
          /\ toeplitz1_cache' =
                 IF generation[c].cached /\ h_extended_vector.ok
                 THEN CacheAfterGeneration(toeplitz1_cache, h_extended_vector.val)
                 ELSE toeplitz1_cache
    /\ UNCHANGED <<global_parameters, verifier, call_vars, conc_vars, pkt_vars, other_vars>>
    /\ UNCHANGED debug_assertions

\* call c draws a field element for each proof and returns the proofs
GenBlind(c, random_vs) ==
    /\ generation[c].pc = "toeplitz"
    /\ generation' =
           [generation EXCEPT
               ![c].pc = "done",
               ![c].proofs = fk20_blind(generation[c].h_vector, generation[c].size,
                                        global_parameters, random_vs)]
    /\ UNCHANGED <<global_parameters, verifier, call_vars, conc_vars, pkt_vars, other_vars>>
    /\ UNCHANGED <<debug_assertions, toeplitz1_cache>>

\* the caller of call c takes the proofs; the call id is free again
GenReturn(c) ==
    /\ generation[c].pc \in {"done", "panicked"}
    /\ generation' = [generation EXCEPT ![c] = IdleGeneration]
    /\ UNCHANGED <<global_parameters, verifier, call_vars, conc_vars, pkt_vars, other_vars>>
    /\ UNCHANGED <<debug_assertions, toeplitz1_cache>>

\* one caller, any polynomial, any build, any cache
FkNext ==
    \/ \E d \in FkDegrees : WithSize(d)
    \/ \E polynomial \in FkPolynomials, use_cache \in BOOLEAN : GenEnter(1, polynomial, use_cache)
    \/ GenExtend(1)
    \/ GenToeplitz(1)
    \/ \E random_vs \in Draws(generation[1].size) : GenBlind(1, random_vs)
    \/ GenReturn(1)

FkSpec == FkInit /\ [][FkNext]_vars

\* callers that share one cache: polynomials of 2 coefficients, the global
\* parameters of the verifier; every call borrows the cache
SharedPolynomials == {<<1, 1>>, <<0, 3>>}

FkSharedInit ==
    /\ FkInit
    /\ global_parameters = GLOBAL_PARAMETERS

FkSharedNext ==
    \/ \E polynomial \in SharedPolynomials : WithSize(Len(polynomial))
    \/ \E c \in GenIds, polynomial \in SharedPolynomials : GenEnter(c, polynomial, TRUE)
    \/ \E c \in GenIds : GenExtend(c)
    \/ \E c \in GenIds : GenToeplitz(c)
    \/ \E c \in GenIds : \E random_vs \in Draws(generation[c].size) : GenBlind(c, random_vs)
    \/ \E c \in GenIds : GenReturn(c)

FkSharedSpec == FkSharedInit /\ [][FkSharedNext]_vars

\* the degree is a power of two within the SRS length
ValidDegree(polynomial_degree, gp) ==
    is_power_of_two(polynomial_degree) /\ polynomial_degree <= Len(gp.powers_of_g)

\* call c has returned the proofs of a polynomial of a valid degree
Generated(c) ==
    /\ generation[c].pc = "done"
    /\ ValidDegree(Len(generation[c].polynomial), global_parameters)

\* the index in the domain of the verifier of point i (from 0) of the domain
\* of a size that divides DomainSize
PointIndex(size, i) == i * (DomainSize \div size)

\* polynomial(x)
Evaluate(polynomial, x) ==
    SumTo([k \in 1..Len(polynomial) |-> FMul(polynomial[k], FPow(x, k - 1))],
          Len(polynomial))

\* the proof generate_element_proof gives for point i of the domain of the
\* polynomial
SinglePointProof(polynomial, i, gp) ==
    generate_element_proof(PointIndex(Len(polynomial), i), polynomial, gp)

\* the proof verifies against (commitment, domain[i], evaluation[i])
VerifiesAt(polynomial, i, proof, gp) ==
    verify_element_proof(PointIndex(Len(polynomial), i),
                         Evaluate(polynomial, DomainElement(PointIndex(Len(polynomial), i))),
                         commit_polynomial(polynomial, gp).val, proof, gp)

\* the field elements drawn for the proofs
DrawnFor(proofs) == [i \in 1..Len(proofs) |-> proofs[i].random_v[1]]

\* C13: for every polynomial of a valid degree and every index i, the i-th
\* proof of fk20_batch_generate_elements_proofs verifies against the
\* (commitment, domain[i], evaluation[i]) the single-point proof for i
\* verifies against.
C13_FK20Equivalence ==
    Generated(1) =>
        \A i \in 1..Len(generation[1].proofs) :
            /\ VerifiesAt(generation[1].polynomial, i - 1,
                          SinglePointProof(generation[1].polynomial, i - 1, global_parameters),
                          global_parameters)
            /\ VerifiesAt(generation[1].polynomial, i - 1, generation[1].proofs[i],
                          global_parameters)

\* C14: the proofs fk20_batch_generate_elements_proofs returns, without a
\* cache and with a cache built for the size, are equal one by one, as Proof
\* values, to the proofs of generate_element_proof for the indices 0..d-1.
C14_ProofVectorsEqual ==
    Generated(1) =>
        generation[1].proofs =
            [i \in 1..Len(generation[1].polynomial) |->
                SinglePointProof(generation[1].polynomial, i - 1, global_parameters)]

\* the other way of generating the proofs of call c: with the cache built for
\* the degree if the call ran without one, without a cache if it ran with one
OtherCacheArgument(c) ==
    IF generation[c].cached THEN None
    ELSE Some(Toeplitz1Cache_with_size(global_parameters, Len(generation[c].polynomial)).val)

\* C15: generation with a cache built for the degree and generation without
\* a cache work from one extended vector and give, for every index and
\* whatever is drawn, proofs of one verification outcome that differ in
\* random_v at most.
C15_CacheEquivalence ==
    Generated(1) =>
        /\ fk20_extended_vector(generation[1].polynomial, global_parameters,
                                OtherCacheArgument(1)).val
              = generation[1].extended_vector
        /\ \A random_vs \in Draws(generation[1].size) :
               LET other == fk20_batch_generate_elements_proofs(
                                generation[1].polynomial, global_parameters,
                                OtherCacheArgument(1), random_vs).val
               IN \A i \in 1..Len(generation[1].proofs) :
                      /\ VerifiesAt(generation[1].polynomial, i - 1, other[i],
                                    global_parameters)
                            = VerifiesAt(generation[1].polynomial, i - 1,
                                         generation[1].proofs[i], global_parameters)
                      /\ other[i].w = generation[1].proofs[i].w

\* C16: every proof returned carries a random_v, its w is the single-point
\* opening for its index plus random_v times G (the first SRS element), and
\* the blinding term leaves the proof valid.
C16_BlindedOpening ==
    Generated(1) =>
        \A i \in 1..Len(generation[1].proofs) :
            /\ generation[1].proofs[i].random_v # None
            /\ generation[1].proofs[i].w =
                   FAdd(SinglePointProof(generation[1].polynomial, i - 1,
                                         global_parameters).w,
                        FMul(global_parameters.powers_of_g[1],
                             generation[1].proofs[i].random_v[1]))
            /\ VerifiesAt(generation[1].polynomial, i - 1,
                          [generation[1].proofs[i] EXCEPT !.random_v = None],
                          global_parameters)

\* C17: a call with a degree that is no power of two or exceeds the SRS
\* length stops with a panic on entry and returns no proofs, and a cache is
\* not built for such a size.
C17_ParameterErrorsFailFast ==
    /\ (/\ generation[1].pc # "idle"
        /\ ~ValidDegree(Len(generation[1].polynomial), global_parameters))
       => (generation[1].pc = "panicked" /\ generation[1].proofs = <<>>)
    /\ (/\ toeplitz1_cache.state # "none"
        /\ ~ValidDegree(toeplitz1_cache.size, global_parameters))
       => toeplitz1_cache.state = "panicked"

\* the proofs of call c, computed by a call that has the cache to itself:
\* from the cache as built, with the field elements call c drew
AloneWithCache(c) ==
    fk20_batch_generate_elements_proofs(
        generation[c].polynomial, global_parameters,
        Some(Toeplitz1Cache_with_size(global_parameters, Len(generation[c].polynomial)).val),
        DrawnFor(generation[c].proofs)).val

\* C18: no step of a generation call changes a cache once it is built, and
\* the proofs of a call that borrowed the cache are the proofs of a call that
\* has the cache to itself.
C18_CacheUnchanged ==
    /\ [][toeplitz1_cache.state = "built" => toeplitz1_cache' = toeplitz1_cache]_vars
    /\ [](\A c \in GenIds :
             (generation[c].pc = "done" /\ generation[c].cached)
                 => generation[c].proofs = AloneWithCache(c))

\* two calls that borrowed one cache for different polynomials have returned
C18_Witness ==
    /\ generation[1].pc = "done"
    /\ generation[2].pc = "done"
    /\ generation[1].cached
    /\ generation[2].cached
    /\ generation[1].polynomial # generation[2].polynomial

\* ------------------------------------------------------------------------
\* The mix packet (nomos-mix/message/src/packet.rs)
\* ------------------------------------------------------------------------
\* x25519: a group of prime order X25519_ORDER, a point given by its discrete
\* logarithm to the base point
X25519_ORDER == 101

\* x25519_dalek::PublicKey::from(&StaticSecret)
PublicKey_from(private_key) == private_key % X25519_ORDER

\* StaticSecret::diffie_hellman(&PublicKey)
diffie_hellman(private_key, public_key) == (private_key * public_key) % X25519_ORDER

\* the multiplier of the key derivation of the blinding factor
BlindMul == 3

\* RoutingKeys::derive(shared secret): the keys of one hop; the blinding
\* factor is a scalar other than 0
RoutingKeys_derive(shared_secret) ==
    [stream_cipher_key |-> shared_secret,
     header_integrity_hmac_key |-> shared_secret,
     payload_key |-> shared_secret,
     blinding_factor |-> ((shared_secret * BlindMul) % (X25519_ORDER - 1)) + 1]

\* SphinxHeader::compute_routing_keys
compute_routing_keys(ephemeral_public_key, private_key) ==
    RoutingKeys_derive(diffie_hellman(private_key, ephemeral_public_key))

RECURSIVE KeyMaterial_derive(_, _)
\* KeyMaterial::derive: the routing keys of every hop of the route; the
\* ephemeral secret is blinded from hop to hop
KeyMaterial_derive(route, accumulator) ==
    IF route = <<>> THEN <<>>
    ELSE LET routing_keys == RoutingKeys_derive(diffie_hellman(accumulator, Head(route)))
         IN <<routing_keys>>
                \o KeyMaterial_derive(Tail(route),
                                      (accumulator * routing_keys.blinding_factor)
                                          % X25519_ORDER)

\* Packet::derive_key_material
derive_key_material(recipient_pubkeys, ephemeral_privkey) ==
    [routing_keys |-> KeyMaterial_derive(recipient_pubkeys, ephemeral_privkey)]

\* the routing flags
FORWARD_HOP == 1
FINAL_HOP == 2

\* the layer that fills the routing information up to max_layers
FillerLayer == [mac_key |-> 0, flag |-> 0]

\* EncryptedRoutingInformation::new: one layer per hop, each under the
\* integrity key of its hop, the last one final; fails for more hops than
\* max_layers
EncryptedRoutingInformation_new(routing_keys, max_layers) ==
    IF Len(routing_keys) > max_layers THEN Err
    ELSE Ok([k \in 1..max_layers |->
                IF k > Len(routing_keys) THEN FillerLayer
                ELSE [mac_key |-> routing_keys[k].header_integrity_hmac_key,
                      flag |-> IF k = Len(routing_keys) THEN FINAL_HOP ELSE FORWARD_HOP]])

\* EncryptedRoutingInformation::unpack: the integrity check under the key of
\* the hop, then the routing information of the hop and the layers that remain
EncryptedRoutingInformation_unpack(self, routing_keys, max_layers) ==
    IF Len(self) = 0 \/ self[1].mac_key # routing_keys.header_integrity_hmac_key THEN Err
    ELSE Ok([routing_info |-> [flag |-> self[1].flag],
             next_encrypted_routing_info |-> Tail(self) \o <<FillerLayer>>])

\* the bytes encapsulation adds to a payload
PAYLOAD_OVERHEAD_SIZE == 1

\* Payload::encapsulate_message: the message under one layer per payload key,
\* the layer of the first key outermost
Payload_encapsulate_message(payload, payload_keys, payload_size) ==
    IF Len(payload) + PAYLOAD_OVERHEAD_SIZE > payload_size THEN Err
    ELSE Ok([plaintext |-> payload, layers |-> payload_keys, size |-> payload_size,
             garbled |-> FALSE])

\* Payload::unwrap: one layer is decrypted; under another key than the one of
\* the outermost layer the content is garbled, with no error
Payload_unwrap(payload, payload_key) ==
    IF payload.layers # <<>> /\ Head(payload.layers) = payload_key
    THEN Ok([payload EXCEPT !.layers = Tail(@)])
    ELSE Ok([payload EXCEPT !.garbled = TRUE])

\* Payload::recover_plaintext: fails unless every layer was taken off
Payload_recover_plaintext(payload) ==
    IF payload.garbled \/ payload.layers # <<>> THEN Err ELSE Ok(payload.plaintext)

\* Packet::build, for the ephemeral private key drawn
Packet_build(recipient_pubkeys, max_layers, payload, payload_size, ephemeral_privkey) ==
    LET key_material == derive_key_material(recipient_pubkeys, ephemeral_privkey)
        encrypted_routing_info ==
            EncryptedRoutingInformation_new(key_material.routing_keys, max_layers)
        payload_keys == [k \in 1..Len(key_material.routing_keys) |->
                            key_material.routing_keys[k].payload_key]
        encapsulated == Payload_encapsulate_message(payload, payload_keys, payload_size)
    IN IF ~encrypted_routing_info.ok THEN Err
       ELSE IF ~encapsulated.ok THEN Err
       ELSE Ok([header |-> [ephemeral_public_key |-> PublicKey_from(ephemeral_privkey),
                            encrypted_routing_info |-> encrypted_routing_info.val],
                payload |-> encapsulated.val])


\* a next packet that keeps the ephemeral public key of this one
derive_next_ephemeral_public_key_Unblinded(cur_ephemeral_pubkey, blinding_factor) ==
    cur_ephemeral_pubkey

\* Packet::derive_next_ephemeral_public_key
derive_next_ephemeral_public_key(cur_ephemeral_pubkey, blinding_factor) ==
    diffie_hellman(blinding_factor, cur_ephemeral_pubkey)

\* a next packet whose routing information lost its last layer
build_next_packet_Unpadded(self, routing_keys, next_encrypted_routing_info, payload) ==
    [header |-> [ephemeral_public_key |->
                     derive_next_ephemeral_public_key(self.header.ephemeral_public_key,
                                                      routing_keys.blinding_factor),
                 encrypted_routing_info |->
                     SubSeq(next_encrypted_routing_info, 1,
                            Len(next_encrypted_routing_info) - 1)],
     payload |-> payload]

\* Packet::build_next_packet
build_next_packet(self, routing_keys, next_encrypted_routing_info, payload) ==
    [header |-> [ephemeral_public_key |->
                     derive_next_ephemeral_public_key(self.header.ephemeral_public_key,
                                                      routing_keys.blinding_factor),
                 encrypted_routing_info |-> next_encrypted_routing_info],
     payload |-> payload]

\* the bytes of an x25519 public key
PUBLIC_KEY_SIZE == 32
\* the bytes of one layer of the routing information
ROUTING_LAYER_SIZE == 2

\* PublicKey::to_bytes: little-endian
PublicKey_to_bytes(public_key) ==
    [k \in 1..PUBLIC_KEY_SIZE |-> IF k = 1 THEN public_key ELSE 0]

\* PublicKey::from([u8; 32])
PublicKey_from_bytes(bytes) == bytes[1] % X25519_ORDER

\* EncryptedRoutingInformation::size(max_layers)
EncryptedRoutingInformation_size(max_layers) == max_layers * ROUTING_LAYER_SIZE

\* EncryptedRoutingInformation::to_bytes: the layers one after another
EncryptedRoutingInformation_to_bytes(self) ==
    [k \in 1..(Len(self) * ROUTING_LAYER_SIZE) |->
        LET layer == self[((k - 1) \div ROUTING_LAYER_SIZE) + 1]
        IN IF (k - 1) % ROUTING_LAYER_SIZE = 0 THEN layer.mac_key ELSE layer.flag]

\* EncryptedRoutingInformation::from_bytes: fails unless the bytes are those
\* of max_layers layers
EncryptedRoutingInformation_from_bytes(data, max_layers) ==
    IF Len(data) # EncryptedRoutingInformation_size(max_layers) THEN Err
    ELSE Ok([k \in 1..max_layers |->
                [mac_key |-> data[(k - 1) * ROUTING_LAYER_SIZE + 1],
                 flag |-> data[(k - 1) * ROUTING_LAYER_SIZE + 2]]])

RECURSIVE ByteSum(_)
\* the sum of the bytes of a sequence
ByteSum(bytes) == IF bytes = <<>> THEN 0 ELSE Head(bytes) + ByteSum(Tail(bytes))

\* Payload::into_bytes: payload_size bytes, the message masked by the layers
\* that still cover it, then the padding
Payload_into_bytes(payload) ==
    LET mask == ByteSum(payload.layers) + (IF payload.garbled THEN 1 ELSE 0)
    IN [k \in 1..payload.size |->
           IF k <= Len(payload.plaintext) THEN (payload.plaintext[k] + mask) % 256
           ELSE IF k = Len(payload.plaintext) + 1 THEN (1 + mask) % 256
           ELSE mask % 256]

\* Packet::to_bytes
Packet_to_bytes(self) ==
    PublicKey_to_bytes(self.header.ephemeral_public_key)
        \o EncryptedRoutingInformation_to_bytes(self.header.encrypted_routing_info)
        \o Payload_into_bytes(self.payload)

\* the outcomes of a call that may panic
Returned(value) == [kind |-> IF value.ok THEN "Ok" ELSE "Err", val |-> value.val]
Panicked == [kind |-> "panic", val |-> <<>>]

\* Packet::from_bytes: the slices data[i..i + 32] and
\* data[i..i + encrypted_routing_info_size] are taken without a length check
Packet_from_bytes(data, max_layers) ==
    IF Len(data) < PUBLIC_KEY_SIZE THEN Panicked
    ELSE LET ephemeral_public_key == PublicKey_from_bytes(SubSeq(data, 1, PUBLIC_KEY_SIZE))
             encrypted_routing_info_size == EncryptedRoutingInformation_size(max_layers)
         IN IF Len(data) < PUBLIC_KEY_SIZE + encrypted_routing_info_size THEN Panicked
            ELSE LET encrypted_routing_info ==
                         EncryptedRoutingInformation_from_bytes(
                             SubSeq(data, PUBLIC_KEY_SIZE + 1,
                                    PUBLIC_KEY_SIZE + encrypted_routing_info_size),
                             max_layers)
                     payload == SubSeq(data, PUBLIC_KEY_SIZE + encrypted_routing_info_size + 1,
                                       Len(data))
                 IN IF ~encrypted_routing_info.ok THEN Returned(Err)
                    ELSE Returned(Ok([header |->
                                          [ephemeral_public_key |-> ephemeral_public_key,
                                           encrypted_routing_info |->
                                               encrypted_routing_info.val],
                                      payload |-> payload]))

\* the results of Packet::unpack
ToForward(next_packet) == [kind |-> "ToForward", packet |-> Some(next_packet), payload |-> <<>>]
FullyUnpacked(plaintext) == [kind |-> "FullyUnpacked", packet |-> NoPacket, payload |-> plaintext]
UnpackError == [kind |-> "Err", packet |-> NoPacket, payload |-> <<>>]


\* an unpack that takes a failed routing information for the final hop
Packet_unpack_ErrorAsFinal(self, private_key, max_layers) ==
    LET routing_keys == compute_routing_keys(self.header.ephemeral_public_key, private_key)
        payload == Payload_unwrap(self.payload, routing_keys.payload_key)
        unpacked_info == EncryptedRoutingInformation_unpack(
                             self.header.encrypted_routing_info, routing_keys, max_layers)
    IN IF ~unpacked_info.ok THEN FullyUnpacked(payload.val.plaintext)
       ELSE IF unpacked_info.val.routing_info.flag = FORWARD_HOP
       THEN ToForward(build_next_packet(self, routing_keys,
                                        unpacked_info.val.next_encrypted_routing_info,
                                        payload.val))
       ELSE IF ~Payload_recover_plaintext(payload.val).ok THEN UnpackError
       ELSE FullyUnpacked(Payload_recover_plaintext(payload.val).val)

\* Packet::unpack
Packet_unpack(self, private_key, max_layers) ==
    LET routing_keys == compute_routing_keys(self.header.ephemeral_public_key, private_key)
        payload == Payload_unwrap(self.payload, routing_keys.payload_key)
        unpacked_info == EncryptedRoutingInformation_unpack(
                             self.header.encrypted_routing_info, routing_keys, max_layers)
    IN IF ~payload.ok THEN UnpackError
       ELSE IF ~unpacked_info.ok THEN UnpackError
       ELSE IF unpacked_info.val.routing_info.flag = FORWARD_HOP
       THEN ToForward(build_next_packet(self, routing_keys,
                                        unpacked_info.val.next_encrypted_routing_info,
                                        payload.val))
       ELSE IF unpacked_info.val.routing_info.flag = FINAL_HOP
       THEN IF ~Payload_recover_plaintext(payload.val).ok THEN UnpackError
            ELSE FullyUnpacked(Payload_recover_plaintext(payload.val).val)
       ELSE UnpackError

\* the private keys of the nodes are 1..NumRecipientKeys
NumRecipientKeys == 3
\* the longest route a packet is built for
MaxRecipients == 2
\* the largest max_layers
MaxLayers == 2

RecipientKeys == 1..NumRecipientKeys
Routes == SeqsUpTo(RecipientKeys, MaxRecipients) \ {<<>>}

\* the values StaticSecret::random() gives the sender
EphemeralKeys == {2, 7}

\* the payloads and the payload sizes of the sender
Payloads == {<<10>>, <<10, 10>>}
PayloadSizes == {2, 3}

PktInit ==
    /\ sent = NoPacket
    /\ packet = NoPacket
    /\ unpacked = <<>>
    /\ global_parameters = GLOBAL_PARAMETERS
    /\ verifier = NoVerifier
    /\ new_frame = NoFrame
    /\ pc = "idle"
    /\ blob = EmptyBlob
    /\ blob_id = <<>>
    /\ result = None
    /\ prev = NoPrev
    /\ calls = NoCalls
    /\ debug_assertions = TRUE
    /\ toeplitz1_cache = NoCache
    /\ generation = NoGeneration
    /\ NothingMore

\* Packet::build for the public keys of the recipients
Build(recipient_privkeys, max_layers, payload, payload_size, ephemeral_privkey) ==
    /\ sent = NoPacket
    /\ LET recipient_pubkeys == [k \in 1..Len(recipient_privkeys) |->
                                    PublicKey_from(recipient_privkeys[k])]
           built == Packet_build(recipient_pubkeys, max_layers, payload, payload_size,
                                 ephemeral_privkey)
       IN /\ sent' = Some([recipient_privkeys |-> recipient_privkeys,
                           max_layers |-> max_layers, payload |-> payload,
                           payload_size |-> payload_size, ok |-> built.ok])
          /\ packet' = IF built.ok THEN Some(built.val) ELSE NoPacket
    /\ unpacked' = <<>>
    /\ UNCHANGED <<global_parameters, verifier, call_vars, conc_vars, fk_vars, other_vars>>

\* a node unpacks the packet with its private key: the next packet travels
\* on; after the payload or an error nothing does
Unpack(private_key) ==
    /\ packet # NoPacket
    /\ LET out == Packet_unpack(packet[1], private_key, sent[1].max_layers)
       IN /\ unpacked' = Append(unpacked, [private_key |-> private_key, kind |-> out.kind,
                                           payload |-> out.payload])
          /\ packet' = out.packet
    /\ UNCHANGED sent
    /\ UNCHANGED <<global_parameters, verifier, call_vars, conc_vars, fk_vars, other_vars>>

\* the places a serialized packet is cut at before it is parsed
Cuts(max_layers, length) ==
    {n \in {0, PUBLIC_KEY_SIZE - 1, PUBLIC_KEY_SIZE,
            PUBLIC_KEY_SIZE + EncryptedRoutingInformation_size(max_layers) - 1,
            PUBLIC_KEY_SIZE + EncryptedRoutingInformation_size(max_layers),
            length} : n <= length}

\* Packet::from_bytes for the first n bytes of the packet on its way
FromBytes(n) ==
    /\ packet # NoPacket
    /\ LET data == Take(Packet_to_bytes(packet[1]), n)
       IN parsed' = Some([data |-> data, max_layers |-> sent[1].max_layers,
                          kind |-> Packet_from_bytes(data, sent[1].max_layers).kind])
    /\ UNCHANGED <<global_parameters, verifier, call_vars, conc_vars, fk_vars, pkt_vars>>
    /\ UNCHANGED <<gate_vars, mix_vars>>

PktNext ==
    \/ \E recipient_privkeys \in Routes, max_layers \in 1..MaxLayers, payload \in Payloads,
          payload_size \in PayloadSizes, ephemeral_privkey \in EphemeralKeys :
           Build(recipient_privkeys, max_layers, payload, payload_size, ephemeral_privkey)
    \/ \E private_key \in RecipientKeys : Unpack(private_key)
    \/ /\ packet # NoPacket
       /\ \E n \in Cuts(sent[1].max_layers, Len(Packet_to_bytes(packet[1]))) : FromBytes(n)

PacketSpec == PktInit /\ [][PktNext]_vars

\* the recipients the packet was built for
Recipients == sent[1].recipient_privkeys

\* every unpack so far was made by the recipient whose turn it was
InRecipientOrder ==
    \A h \in 1..Len(unpacked) :
        h <= Len(Recipients) /\ unpacked[h].private_key = Recipients[h]

\* C19: a packet built for the recipients r1..rn, n at most max_layers, and
\* unpacked with the private keys of r1, r2, ... in this order gives
\* ToForward at each of the first n-1 hops and at the n-th hop FullyUnpacked
\* with the payload given to Packet::build.
C19_LayeredUnpacking ==
    (sent # NoPacket /\ Len(Recipients) <= sent[1].max_layers
        /\ Len(sent[1].payload) + PAYLOAD_OVERHEAD_SIZE <= sent[1].payload_size
        /\ InRecipientOrder)
    => /\ sent[1].ok
       /\ \A h \in 1..Len(unpacked) :
              IF h < Len(Recipients)
              THEN unpacked[h].kind = "ToForward"
              ELSE /\ unpacked[h].kind = "FullyUnpacked"
                   /\ unpacked[h].payload = sent[1].payload

\* the last of two different recipients has recovered the payload
C19_Witness ==
    /\ sent # NoPacket
    /\ InRecipientOrder
    /\ Len(Recipients) = 2
    /\ Len(unpacked) = 2
    /\ Recipients[1] # Recipients[2]
    /\ unpacked[2].kind = "FullyUnpacked"

\* C20: unpack with a private key that is not the key of the current
\* recipient of the packet returns an error, neither ToForward nor
\* FullyUnpacked.
C20_WrongKeyFails ==
    sent # NoPacket =>
        \A h \in 1..Len(unpacked) :
            (h > Len(Recipients) \/ unpacked[h].private_key # Recipients[h])
                => /\ unpacked[h].kind = "Err"
                   /\ unpacked[h].payload = <<>>

\* the second hop was tried with the key of the first recipient and failed
C20_Witness ==
    /\ sent # NoPacket
    /\ Len(unpacked) = 2
    /\ Len(Recipients) = 2
    /\ unpacked[1].kind = "ToForward"
    /\ unpacked[2].private_key = Recipients[1]
    /\ unpacked[2].kind = "Err"

\* C21: every packet built with max_layers and payload_size serializes to
\* 32 + EncryptedRoutingInformation::size(max_layers) + payload_size bytes,
\* for every number of recipients, and so does every packet that unpack
\* hands on, after any number of hops.
C21_ConstantPacketSize ==
    (sent # NoPacket /\ packet # NoPacket) =>
        Len(Packet_to_bytes(packet[1]))
            = PUBLIC_KEY_SIZE + EncryptedRoutingInformation_size(sent[1].max_layers)
              + sent[1].payload_size

\* a packet handed on by its first recipient is on its way
C21_Witness ==
    /\ packet # NoPacket
    /\ Len(unpacked) >= 1
    /\ unpacked[Len(unpacked)].kind = "ToForward"
    /\ Len(Packet_to_bytes(packet[1])) > PUBLIC_KEY_SIZE

\* C30: Packet::from_bytes returns Ok or Err for every byte sequence, also
\* for one shorter than 32 + EncryptedRoutingInformation::size(max_layers)
\* bytes; it does not panic.
C30_FromBytesNeverPanics ==
    parsed # <<>> => parsed[1].kind \in {"Ok", "Err"}

\* ------------------------------------------------------------------------
\* The steps of one verify call
\* ------------------------------------------------------------------------
\* the matrices dispersed to the call: up to MaxRows rows X or 3 + 2.X
GateMatrices == SeqsUpTo({<<0, 1>>, <<3, 2>>}, MaxRows)

\* the blobs handed to the call of a verifier: encoded for the own or for the
\* next column, as encoded or changed in a single place
GateBlobs ==
    [v \in ConcVerifiers |->
        LET encoded == {EncodeBlob(m, c, GLOBAL_PARAMETERS) :
                           m \in GateMatrices, c \in {v.index, (v.index + 1) % DomainSize}}
        IN encoded \cup UNION {Tampered(b) : b \in encoded}]

\* a step of verify that was evaluated, and what it gave
Step(name, j, ok) == [step |-> name, row |-> j, ok |-> ok]

\* the rows verify_chunks has checked
RowsEvaluated == Cardinality({i \in 1..Len(evaluated) : evaluated[i].step = "verify_chunk"})

GateInit ==
    /\ global_parameters = GLOBAL_PARAMETERS
    /\ verifier \in ConcVerifiers
    /\ new_frame = NoFrame
    /\ pc = "idle"
    /\ blob = EmptyBlob
    /\ blob_id = <<>>
    /\ result = None
    /\ prev = NoPrev
    /\ NothingElse
    /\ NothingMore

\* verify is entered: blob.id() is taken
GateEnter(b) ==
    /\ pc = "idle"
    /\ pc' = "Received"
    /\ blob' = b
    /\ blob_id' = DaBlob_id(b)
    /\ result' = None
    /\ evaluated' = <<>>
    /\ UNCHANGED <<global_parameters, verifier, new_frame, prev>>
    /\ UNCHANGED <<conc_vars, fk_vars, pkt_vars, wire_vars, mix_vars>>

\* a step of the call: its outcome is noted, the call moves on when the step
\* is passed and is rejected otherwise
GateStep(name, j, ok, passed, onward) ==
    /\ evaluated' = Append(evaluated, Step(name, j, ok))
    /\ pc' = IF passed THEN onward ELSE "Rejected"
    /\ result' = None
    /\ UNCHANGED <<global_parameters, verifier, new_frame, blob, blob_id, prev>>
    /\ UNCHANGED <<conc_vars, fk_vars, pkt_vars, wire_vars, mix_vars>>

\* verify_column, 1: the column bytes as a polynomial
GateConvert ==
    /\ pc = "Received"
    /\ LET ok == bytes_to_polynomial(as_bytes(blob.column)).ok
       IN GateStep("bytes_to_polynomial", 0, ok, ok, "Converted")

\* verify_column, 1: the commitment of the polynomial
GateCommit ==
    /\ pc = "Converted"
    /\ LET ok == commit_polynomial(bytes_to_polynomial(as_bytes(blob.column)).val,
                                    global_parameters).ok
       IN GateStep("commit_polynomial", 0, ok, ok, "Committed")


\* a comparison of the commitments that lets a mismatch through
AfterCompare_Lenient(equal) == TRUE

\* verify_column, 2: a mismatch of the commitments fails the gate
AfterCompare(equal) == equal

\* verify_column, 2: the computed commitment against column_commitment
GateCompare ==
    /\ pc = "Committed"
    /\ LET equal == commit_polynomial(bytes_to_polynomial(as_bytes(blob.column)).val,
                                       global_parameters).val = blob.column_commitment
       IN GateStep("column_commitment", 0, equal, AfterCompare(equal), "Compared")

\* verify_column, 3 and 4: the opening of the aggregated column commitment at
\* the hash of the column
GateOpening ==
    /\ pc = "Compared"
    /\ LET ok == verify_element_proof(
                     position(verifier),
                     field_element_from_bytes_le(
                         hash_column_and_commitment(blob.column, blob.column_commitment)),
                     blob.aggregated_column_commitment, blob.aggregated_column_proof,
                     global_parameters)
       IN GateStep("verify_element_proof", 0, ok, ok, "ColumnChecked")


\* a length check that turns away a blob with no rows
all_equal_NonEmpty(chunks, commitments, proofs) ==
    Len(chunks) > 0 /\ Len(chunks) = Len(commitments) /\ Len(commitments) = Len(proofs)

\* verify_chunks: [chunks.len(), commitments.len(), proofs.len()].iter().all_equal()
all_equal(chunks, commitments, proofs) ==
    Len(chunks) = Len(commitments) /\ Len(commitments) = Len(proofs)

\* verify_chunks: the comparison of the three lengths
GateLengths ==
    /\ pc = "ColumnChecked"
    /\ LET ok == all_equal(blob.column, blob.rows_commitments, blob.rows_proofs)
       IN GateStep("all_equal", 0, ok, ok, "Rows")


\* a loop over the rows that goes on after a failed row
AfterRow_GoOn(verified) == TRUE

\* verify_chunks: a failed row ends the loop
AfterRow(verified) == verified

\* verify_chunks: one turn of the loop, row j = RowsEvaluated + 1
GateRow ==
    /\ pc = "Rows"
    /\ RowsEvaluated < Len(blob.column)
    /\ LET j == RowsEvaluated + 1
           verified == verify_chunk(blob.column[j], blob.rows_commitments[j],
                                    blob.rows_proofs[j], position(verifier),
                                    global_parameters)
       IN GateStep("verify_chunk", j, verified, AfterRow(verified), "Rows")

\* verify: the loop is over, the attestation is built and returned
GateAttest ==
    /\ pc = "Rows"
    /\ RowsEvaluated >= Len(blob.column)
    /\ evaluated' = Append(evaluated, Step("build_attestation", 0, TRUE))
    /\ pc' = "Attested"
    /\ result' = Some(build_attestation(verifier, blob))
    /\ UNCHANGED <<global_parameters, verifier, new_frame, blob, blob_id, prev>>
    /\ UNCHANGED <<conc_vars, fk_vars, pkt_vars, wire_vars, mix_vars>>

\* the caller has taken the result
GateReturn ==
    /\ pc \in {"Attested", "Rejected"}
    /\ pc' = "idle"
    /\ UNCHANGED <<global_parameters, verifier, new_frame, blob, blob_id, result, prev>>
    /\ UNCHANGED <<conc_vars, fk_vars, pkt_vars, other_vars>>

GateNext ==
    \/ \E b \in GateBlobs[verifier] : GateEnter(b)
    \/ GateConvert
    \/ GateCommit
    \/ GateCompare
    \/ GateOpening
    \/ GateLengths
    \/ GateRow
    \/ GateAttest
    \/ GateReturn

GateSpec == GateInit /\ [][GateNext]_vars

\* step name was evaluated before place i, with success
PassedBefore(name, i) ==
    \E k \in 1..(i - 1) : evaluated[k].step = name /\ evaluated[k].ok

\* the steps of the column gate
ColumnSteps ==
    {"bytes_to_polynomial", "commit_polynomial", "column_commitment", "verify_element_proof"}

\* C22: the row gate is evaluated only after the column gate has passed, and
\* in the column gate the opening of the aggregated column commitment only
\* after the conversion to a polynomial succeeded and the recomputed
\* commitment equalled column_commitment; after a failed step no later step
\* is evaluated.
C22_GateOrder ==
    \A i \in 1..Len(evaluated) :
        /\ evaluated[i].step \in {"all_equal", "verify_chunk", "build_attestation"}
             => \A name \in ColumnSteps : PassedBefore(name, i)
        /\ evaluated[i].step = "verify_element_proof"
             => /\ PassedBefore("bytes_to_polynomial", i)
                /\ PassedBefore("commit_polynomial", i)
                /\ PassedBefore("column_commitment", i)
        /\ ~evaluated[i].ok => i = Len(evaluated) /\ pc \in {"Rejected", "idle"}

\* the call was rejected at the comparison of the commitments: the opening
\* was not evaluated
C22_Witness ==
    /\ pc = "Rejected"
    /\ Len(evaluated) = 3
    /\ evaluated[3].step = "column_commitment"
    /\ ~evaluated[3].ok

\* C23: verify_chunks checks the rows in ascending order; when row j is the
\* first row that fails, no row after j is checked and the call is rejected;
\* the comparison of the lengths comes before every row, and with unequal
\* lengths no row is checked.
C23_RowsShortCircuit ==
    /\ \A i \in 1..Len(evaluated) :
           evaluated[i].step = "verify_chunk"
             => /\ PassedBefore("all_equal", i)
                /\ evaluated[i].row
                     = Cardinality({k \in 1..i : evaluated[k].step = "verify_chunk"})
                /\ ~evaluated[i].ok
                     => /\ i = Len(evaluated)
                        /\ pc \in {"Rejected", "idle"}
                        /\ result = None
    /\ (\E i \in 1..Len(evaluated) : evaluated[i].step = "all_equal" /\ ~evaluated[i].ok)
         => /\ RowsEvaluated = 0
            /\ pc \in {"Rejected", "idle"}
            /\ result = None

\* the first of two rows failed: the second was not checked
C23_Witness ==
    /\ pc = "Rejected"
    /\ Len(blob.column) = 2
    /\ Len(blob.rows_proofs) = 2
    /\ RowsEvaluated = 1
    /\ ~evaluated[Len(evaluated)].ok

\* the call has ended
GateTerminal == pc \in {"Attested", "Rejected"}

\* C24: when the column gate passes, the three sequences have equal length
\* and every row opens at the index of the verifier, verify returns
\* Some(attestation), also for a blob with no rows, and the signature
\* verifies against the public key of the verifier and the derived message.
C24_Completeness ==
    (/\ GateTerminal
     /\ verify_column(blob.column, blob.column_commitment,
                      blob.aggregated_column_commitment, blob.aggregated_column_proof,
                      verifier.index, global_parameters)
     /\ Len(blob.column) = Len(blob.rows_commitments)
     /\ Len(blob.rows_commitments) = Len(blob.rows_proofs)
     /\ \A j \in 1..Len(blob.column) :
            verify_chunk(blob.column[j], blob.rows_commitments[j], blob.rows_proofs[j],
                         verifier.index, global_parameters))
    => /\ pc = "Attested"
       /\ result # None
       /\ SigVerify(result[1].signature,
                    build_attestation_message(blob.aggregated_column_commitment,
                                              blob.rows_commitments),
                    <<>>, <<>>, sk_to_pk(verifier.sk))

\* a blob with no rows was attested
C24_Witness ==
    /\ pc = "Attested"
    /\ Len(blob.column) = 0
    /\ result # None

\* C25: for a polynomial of d coefficients, d a power of two within the SRS
\* length, fk20_batch_generate_elements_proofs returns exactly d proofs, the
\* i-th being the proof for domain index i, while the extended vector and the
\* h vector have length 2d; with a cache as without one.
C25_OneProofPerPoint ==
    Generated(1) =>
        LET d == Len(generation[1].polynomial)
        IN /\ Len(generation[1].proofs) = d
           /\ Len(generation[1].extended_vector) = 2 * d
           /\ Len(generation[1].h_vector) = 2 * d
           /\ \A i \in 1..d :
                  VerifiesAt(generation[1].polynomial, i - 1, generation[1].proofs[i],
                             global_parameters)

\* ------------------------------------------------------------------------
\* MessageBlendStream (nomos-mix/core/src/message_blend/mod.rs)
\* ------------------------------------------------------------------------
\* the messages the input stream delivers
MaxMessages == 3

\* what a message is for the node: its last layer, one of several layers, a
\* layer of another node, or no message of the mix at all
Wrappings == {"last", "more", "foreign", "broken"}

\* input message number id
Message(id, wrapping) == [id |-> id, wrapping |-> wrapping]

\* CryptographicProcessor::unwrap_message: Ok((unwrapped message, fully
\* unwrapped)), Err(MsgUnwrapNotAllowed) or another Err
unwrap_message(message) ==
    CASE message.wrapping = "last" -> [ok |-> TRUE, val |-> <<message.id, TRUE>>, err |-> ""]
      [] message.wrapping = "more" -> [ok |-> TRUE, val |-> <<message.id, FALSE>>, err |-> ""]
      [] message.wrapping = "foreign" ->
             [ok |-> FALSE, val |-> <<>>, err |-> "MsgUnwrapNotAllowed"]
      [] OTHER -> [ok |-> FALSE, val |-> <<>>, err |-> "Other"]

\* MixOutgoingMessage
MixOutgoingMessage(kind, unwrapped_message) == [kind |-> kind, message |-> unwrapped_message]


\* a processing that sends every unwrapped message on as Outbound
process_incoming_message_Untagged(message) ==
    LET unwrapped == unwrap_message(message)
    IN IF unwrapped.ok THEN <<MixOutgoingMessage("Outbound", unwrapped.val[1])>> ELSE <<>>

\* MessageBlendStream::process_incoming_message: what is sent on
\* temporal_sender
process_incoming_message(message) ==
    LET unwrapped == unwrap_message(message)
    IN IF unwrapped.ok
       THEN IF unwrapped.val[2]
            THEN <<MixOutgoingMessage("FullyUnwrapped", unwrapped.val[1])>>
            ELSE <<MixOutgoingMessage("Outbound", unwrapped.val[1])>>
       ELSE <<>>


\* an input stream that hands out its newest message first
poll_next_unpin_Newest(stream) == Len(stream)

\* input_stream.poll_next_unpin: the place of the item a ready stream hands
\* out, its oldest
poll_next_unpin(stream) == 1

\* the stream without the item at place k
Without(stream, k) == SubSeq(stream, 1, k - 1) \o SubSeq(stream, k + 1, Len(stream))

BlendInit ==
    /\ global_parameters = GLOBAL_PARAMETERS
    /\ verifier = NoVerifier
    /\ new_frame = NoFrame
    /\ pc = "idle"
    /\ blob = EmptyBlob
    /\ blob_id = <<>>
    /\ result = None
    /\ prev = NoPrev
    /\ NothingElse
    /\ NothingMore

\* the network delivers a message: the input stream has one more item ready
Arrive(wrapping) ==
    /\ arrived < MaxMessages
    /\ arrived' = arrived + 1
    /\ input_stream' = Append(input_stream, Message(arrived + 1, wrapping))
    /\ UNCHANGED <<consumed, temporal_sender, output_stream, emitted>>
    /\ UNCHANGED <<global_parameters, verifier, call_vars, conc_vars, fk_vars, pkt_vars>>
    /\ UNCHANGED <<gate_vars, wire_vars, svc_vars>>

\* MessageBlendStream::poll_next: a ready input message is processed, then the
\* output stream is polled; the temporal processor releases its oldest
\* message or holds everything back
PollNext(release) ==
    /\ LET taken == IF input_stream = <<>> THEN <<>>
                    ELSE <<input_stream[poll_next_unpin(input_stream)]>>
           sent_on == IF taken = <<>> THEN <<>> ELSE process_incoming_message(taken[1])
           held == output_stream \o sent_on
       IN /\ input_stream' = IF taken = <<>> THEN input_stream
                             ELSE Without(input_stream, poll_next_unpin(input_stream))
          /\ consumed' = consumed \o taken
          /\ temporal_sender' = temporal_sender \o sent_on
          /\ IF release /\ held # <<>>
             THEN /\ emitted' = Append(emitted, Head(held))
                  /\ output_stream' = Tail(held)
             ELSE /\ emitted' = emitted
                  /\ output_stream' = held
    /\ UNCHANGED arrived
    /\ UNCHANGED <<global_parameters, verifier, call_vars, conc_vars, fk_vars, pkt_vars>>
    /\ UNCHANGED <<gate_vars, wire_vars, svc_vars>>

\* the stream is polled
Poll == \E release \in BOOLEAN : PollNext(release)

BlendNext ==
    \/ \E wrapping \in Wrappings : Arrive(wrapping)
    \/ Poll

BlendSpec == BlendInit /\ [][BlendNext]_vars

\* the stream is polled again and again
FairBlendSpec == BlendSpec /\ WF_vars(Poll)

RECURSIVE SentOnFor(_)
\* what processing the messages of a sequence sends on, in order
SentOnFor(messages) ==
    IF messages = <<>> THEN <<>>
    ELSE SentOnFor(SubSeq(messages, 1, Len(messages) - 1))
             \o (LET message == messages[Len(messages)]
                 IN IF message.wrapping = "last"
                    THEN <<MixOutgoingMessage("FullyUnwrapped", message.id)>>
                    ELSE IF message.wrapping = "more"
                    THEN <<MixOutgoingMessage("Outbound", message.id)>>
                    ELSE <<>>)

\* the ids of the messages of a sequence
IdsOf(messages) == {messages[k].id : k \in 1..Len(messages)}

\* C26: every incoming message the cryptographic processor unwraps is pushed
\* to the temporal processor exactly once, as FullyUnwrapped when the unwrap
\* reported full unwrapping and as Outbound otherwise; a message whose unwrap
\* fails is dropped and never emitted, and the messages after it are
\* processed all the same.
C26_UnwrappedPushedOnce ==
    /\ temporal_sender = SentOnFor(consumed)
    /\ \A k \in 1..Len(consumed) :
           LET pushes == {n \in 1..Len(temporal_sender) :
                             temporal_sender[n].message = consumed[k].id}
           IN IF consumed[k].wrapping \in {"last", "more"}
              THEN Cardinality(pushes) = 1
              ELSE /\ pushes = {}
                   /\ \A n \in 1..Len(emitted) : emitted[n].message # consumed[k].id
    /\ \A n \in 1..Len(emitted) :
           \E k \in 1..Len(temporal_sender) : temporal_sender[k] = emitted[n]
    /\ temporal_sender = emitted \o output_stream

\* after a message that was dropped a later one was pushed and emitted
C26_Witness ==
    /\ Len(consumed) >= 2
    /\ consumed[1].wrapping = "foreign"
    /\ consumed[2].wrapping = "last"
    /\ emitted = <<MixOutgoingMessage("FullyUnwrapped", consumed[2].id)>>

\* every input message delivered so far: taken already, or still ready
Delivered == consumed \o input_stream

\* C27: each poll_next takes at most one ready input message, the messages
\* are taken and handed to the temporal processor in input order, and under
\* fair polling every message the input stream makes ready is taken in the
\* end, whether or not the output side is pending.
C27_NoInputStarved ==
    /\ [][Len(consumed') <= Len(consumed) + 1]_vars
    /\ [](\A k \in 1..Len(Delivered) : Delivered[k].id = k)
    /\ [](temporal_sender = SentOnFor(consumed) /\ Len(consumed) + Len(input_stream) = arrived)
    /\ \A id \in 1..MaxMessages :
           (id \in IdsOf(input_stream)) ~> (id \in IdsOf(consumed))

\* two messages were ready at once and both were taken while the output side
\* stayed pending
C27_Witness ==
    /\ Len(consumed) >= 2
    /\ arrived >= 2
    /\ emitted = <<>>
    /\ Len(output_stream) >= 1

\* ------------------------------------------------------------------------
\* The mix NetworkService (nomos-services/mix/src/lib.rs)
\* ------------------------------------------------------------------------
\* the relay messages sent to the service
MaxRelayMessages == 2
\* the lifecycle messages sent to the service
MaxLifecycleMessages == 2

\* NetworkMsg: Process, or Subscribe with a sender whose client waits or has
\* hung up
NetworkMsgs ==
    {[kind |-> "Process", client |-> ""]}
        \cup {[kind |-> "Subscribe", client |-> c] : c \in {"waiting", "hung_up"}}

\* LifecycleMessage: Kill, or Shutdown with a signal sender whose receiver
\* waits or was dropped
LifecycleMessages ==
    {[kind |-> "Kill", receiver |-> ""]}
        \cup {[kind |-> "Shutdown", receiver |-> c] : c \in {"waiting", "dropped"}}

\* NetworkService::handle_network_service_message: what the backend did; a
\* subscription handle that cannot be sent is dropped with a warning
handle_network_service_message(msg) ==
    IF msg.kind = "Process" THEN [did |-> "process", delivered |-> FALSE]
    ELSE [did |-> "subscribe", delivered |-> msg.client = "waiting"]


\* a service that goes on when the acknowledgement cannot be sent
should_stop_service_AckRequired(msg) ==
    IF msg.kind = "Kill" THEN [stop |-> TRUE, signal |-> <<>>]
    ELSE [stop |-> msg.receiver = "waiting", signal |-> <<[ok |-> msg.receiver = "waiting"]>>]

\* NetworkService::should_stop_service: true for both messages; for Shutdown
\* the acknowledgement is sent first, an error of send is logged
should_stop_service(msg) ==
    IF msg.kind = "Kill" THEN [stop |-> TRUE, signal |-> <<>>]
    ELSE [stop |-> TRUE, signal |-> <<[ok |-> msg.receiver = "waiting"]>>]

\* recv() / next() would give None: the channel is closed and empty
Ended(channel) == channel.closed /\ channel.queue = <<>>

SvcInit ==
    /\ global_parameters = GLOBAL_PARAMETERS
    /\ verifier = NoVerifier
    /\ new_frame = NoFrame
    /\ pc = "idle"
    /\ blob = EmptyBlob
    /\ blob_id = <<>>
    /\ result = None
    /\ prev = NoPrev
    /\ NothingElse
    /\ evaluated = <<>>
    /\ parsed = <<>>
    /\ input_stream = <<>>
    /\ arrived = 0
    /\ consumed = <<>>
    /\ temporal_sender = <<>>
    /\ output_stream = <<>>
    /\ emitted = <<>>
    /\ inbound_relay = EmptyChannel
    /\ lifecycle_stream = EmptyChannel
    /\ run = [pc |-> "running", result |-> "", stopped_by |-> ""]
    /\ backend = <<>>
    /\ signals = <<>>

\* another service sends a message on the relay
RelaySend(msg) ==
    /\ ~inbound_relay.closed
    /\ Len(inbound_relay.queue) + Len(backend) < MaxRelayMessages
    /\ inbound_relay' = [inbound_relay EXCEPT !.queue = Append(@, msg)]
    /\ UNCHANGED <<lifecycle_stream, run, backend, signals>>
    /\ UNCHANGED <<global_parameters, verifier, call_vars, conc_vars, fk_vars, pkt_vars>>
    /\ UNCHANGED <<gate_vars, wire_vars, blend_vars>>

\* the last sender of the relay is dropped
RelayClose ==
    /\ ~inbound_relay.closed
    /\ inbound_relay' = [inbound_relay EXCEPT !.closed = TRUE]
    /\ UNCHANGED <<lifecycle_stream, run, backend, signals>>
    /\ UNCHANGED <<global_parameters, verifier, call_vars, conc_vars, fk_vars, pkt_vars>>
    /\ UNCHANGED <<gate_vars, wire_vars, blend_vars>>

\* the runner sends a lifecycle message
LifecycleSend(msg) ==
    /\ ~lifecycle_stream.closed
    /\ Len(lifecycle_stream.queue) + (IF run.stopped_by = "" THEN 0 ELSE 1)
           < MaxLifecycleMessages
    /\ lifecycle_stream' = [lifecycle_stream EXCEPT !.queue = Append(@, msg)]
    /\ UNCHANGED <<inbound_relay, run, backend, signals>>
    /\ UNCHANGED <<global_parameters, verifier, call_vars, conc_vars, fk_vars, pkt_vars>>
    /\ UNCHANGED <<gate_vars, wire_vars, blend_vars>>

\* the lifecycle stream ends
LifecycleClose ==
    /\ ~lifecycle_stream.closed
    /\ lifecycle_stream' = [lifecycle_stream EXCEPT !.closed = TRUE]
    /\ UNCHANGED <<inbound_relay, run, backend, signals>>
    /\ UNCHANGED <<global_parameters, verifier, call_vars, conc_vars, fk_vars, pkt_vars>>
    /\ UNCHANGED <<gate_vars, wire_vars, blend_vars>>

\* run, select!: the branch Some(msg) = inbound_relay.recv()
HandleRelay ==
    /\ run.pc = "running"
    /\ inbound_relay.queue # <<>>
    /\ backend' = Append(backend, handle_network_service_message(Head(inbound_relay.queue)))
    /\ inbound_relay' = [inbound_relay EXCEPT !.queue = Tail(@)]
    /\ UNCHANGED <<lifecycle_stream, run, signals>>
    /\ UNCHANGED <<global_parameters, verifier, call_vars, conc_vars, fk_vars, pkt_vars>>
    /\ UNCHANGED <<gate_vars, wire_vars, blend_vars>>

\* run, select!: the branch Some(msg) = lifecycle_stream.next(); break and
\* Ok(()) when should_stop_service says so
HandleLifecycle ==
    /\ run.pc = "running"
    /\ lifecycle_stream.queue # <<>>
    /\ LET msg == Head(lifecycle_stream.queue)
           stopping == should_stop_service(msg)
       IN /\ signals' = signals \o stopping.signal
          /\ run' = IF stopping.stop
                    THEN [pc |-> "returned", result |-> "Ok", stopped_by |-> msg.kind]
                    ELSE run
    /\ lifecycle_stream' = [lifecycle_stream EXCEPT !.queue = Tail(@)]
    /\ UNCHANGED <<inbound_relay, backend>>
    /\ UNCHANGED <<global_parameters, verifier, call_vars, conc_vars, fk_vars, pkt_vars>>
    /\ UNCHANGED <<gate_vars, wire_vars, blend_vars>>

\* run, select!: both patterns fail on None, every branch is disabled and
\* there is no else branch: select! panics
SelectAllDisabled ==
    /\ run.pc = "running"
    /\ Ended(inbound_relay)
    /\ Ended(lifecycle_stream)
    /\ run' = [run EXCEPT !.pc = "panicked"]
    /\ UNCHANGED <<inbound_relay, lifecycle_stream, backend, signals>>
    /\ UNCHANGED <<global_parameters, verifier, call_vars, conc_vars, fk_vars, pkt_vars>>
    /\ UNCHANGED <<gate_vars, wire_vars, blend_vars>>

SvcNext ==
    \/ \E msg \in NetworkMsgs : RelaySend(msg)
    \/ RelayClose
    \/ \E msg \in LifecycleMessages : LifecycleSend(msg)
    \/ LifecycleClose
    \/ HandleRelay
    \/ HandleLifecycle
    \/ SelectAllDisabled

ServiceSpec == SvcInit /\ [][SvcNext]_vars

\* C28: once run has handled a Kill or a Shutdown, the backend handles no
\* further relay message and run returns Ok; the first lifecycle message
\* handled ends the loop; for Shutdown the acknowledgement is sent before
\* the loop ends, which it does also when the sending fails.
C28_StopsOnFirstLifecycleMessage ==
    /\ [][run.pc = "returned" => (backend' = backend /\ run' = run /\ signals' = signals)]_vars
    /\ [][Len(lifecycle_stream'.queue) < Len(lifecycle_stream.queue)
            => (run.pc = "running" /\ run'.pc = "returned")]_vars
    /\ [](run.pc = "returned"
            => /\ run.result = "Ok"
               /\ run.stopped_by \in {"Kill", "Shutdown"}
               /\ Len(signals) = (IF run.stopped_by = "Shutdown" THEN 1 ELSE 0))
    /\ [](run.stopped_by # "" => run.pc = "returned")

\* run has returned after a Shutdown whose acknowledgement could not be
\* sent, with a relay message still waiting
C28_Witness ==
    /\ run.pc = "returned"
    /\ run.stopped_by = "Shutdown"
    /\ signals = <<[ok |-> FALSE]>>
    /\ inbound_relay.queue # <<>>

\* C29: run ends only by handling a Kill or a Shutdown: whatever the relay
\* and lifecycle events are (the relay closed, the lifecycle stream closed, a
\* Subscribe whose client has hung up), the loop neither returns nor aborts
\* before one of the two was received.
C29_EndsOnlyOnStopMessage ==
    run.pc \in {"returned", "panicked"} => run.stopped_by \in {"Kill", "Shutdown"}

====
